---- MODULE Spec2Model ----
(***************************************************************************)
(* A model of StorageManager (src/src/services/StorageManager.ts): the     *)
(* localStorage-backed collection store of Aviram Radio.                   *)
(*                                                                         *)
(* Modelling conventions                                                   *)
(*  - A JSON object is a TLA+ record; an optional member that is absent    *)
(*    (undefined) is a key that is not in the record's DOMAIN.             *)
(*  - A JSON array is a sequence.                                          *)
(*  - A member is stored under its key only with the JSON type the schema  *)
(*    gives it.  A member holding a value of another type (frequencies:    *)
(*    "x", stars: 3, settings.volume: "loud") is recorded in the object's  *)
(*    "wrongType" set instead, so that Array.isArray / typeof can tell it  *)
(*    from an absent member.                                               *)
(*  - Time stamps inside a track are counted in units of 1/Scale second.   *)
(*  - Date.now() is the variable clock (milliseconds); TickMs pass between  *)
(*    one call of the StorageManager and the next.                         *)
(*  - localStorage.setItem may throw (quota): every write takes an input   *)
(*    w that says whether the write is accepted.                           *)
(***************************************************************************)
EXTENDS Integers, Sequences, FiniteSets, TLC

VARIABLES
    storage,   \* localStorage.getItem(STORAGE_KEY): NoItem or a JSON text
    clock,     \* Date.now()
    faulty,    \* whether localStorage may reject a write (quota exceeded)
    last,      \* the last StorageManager call: its name, arguments and outcome
    calls,     \* how many StorageManager calls have been made
    player,    \* the PlayerState of the YouTube hook and of the SoundCloud hook
    tabs       \* the writers sharing localStorage: what each holds in memory

vars == <<storage, clock, faulty, last, calls, player, tabs>>

-----------------------------------------------------------------------------
(* Bounds of the model *)

Scale == 2          \* time stamps are multiples of 1/Scale second
MaxT == 3           \* largest time stamp offered to addStar/removeStar (units)
MaxCalls == 2       \* how many StorageManager calls a run makes
MaxWrites == 3      \* how many operations the writers of SpecTabs begin
Epoch == 100000     \* Date.now() at the first call (milliseconds)
TickMs == 1000      \* milliseconds from one call to the next

(* Program constants *)

VERSION == 5
MinSessionSeconds == 10
TopPositions == 3
SeedStaggerMs == 1000
DefaultVolume == 7  \* 0.7, in tenths
DEFAULT_WINDOW_SIZE == 30
DEFAULT_PEAK_COUNT == 10
RECENCY_HALF_LIFE_HOURS == 168
CONFIDENCE_ALPHA == 40
MsPerHour == 3600000

-----------------------------------------------------------------------------
(* JSON objects *)

Has(o, k) == k \in DOMAIN o

\* o[k] = v on a JavaScript object
Put(o, k, v) == (k :> v) @@ o

\* {} : an object with no members
EmptyObject == [k \in {} |-> ""]

\* a member that holds a value which is not of its schema type
WrongType(o, k) == Has(o, "wrongType") /\ k \in o.wrongType

\* Array.isArray(o[k])
IsArray(o, k) == Has(o, k) /\ ~WrongType(o, k)

\* !o[k] for a string member: absent or the empty string
FalsyString(o, k) == ~Has(o, k) \/ o[k] = ""

-----------------------------------------------------------------------------
(* localStorage and JSON texts *)

NoItem == [null |-> TRUE]
Garbage == [garbage |-> TRUE]

\* JSON.stringify(data): members that are undefined are not written; every
\* other value of the model (finite numbers, strings, arrays, objects) is
\* written as it is.
JSONstringify(data) == [json |-> data]

\* JSON.parse(text) throws a SyntaxError on a text that is no JSON
ParseThrows(text) == ~Has(text, "json")
JSONparse(text) == text.json

-----------------------------------------------------------------------------
(* Seeds: src/src/constants/seeds.ts *)

SEED_FREQUENCIES == <<
    [videoId |-> "w6H_OPzo9Gk", title |-> "Greta Cozy Autumn Mix"],
    [videoId |-> "jfKfPfyJRdk", title |-> "Lofi HipHop Radio"],
    [videoId |-> "fIWRqMLhWbI", title |-> "Chris Luno Thailand"],
    [videoId |-> "p4YOXmm839c", title |-> "Sunrise House Mix"],
    [videoId |-> "St7G1F4mu_4", title |-> "Olivia Dean"],
    [videoId |-> "W13Ydr_AcjI", title |-> "Nikiri - Chill House"] >>

-----------------------------------------------------------------------------
(* Core: save, getDefaultData, seedIfEmpty, migrate, load *)

\* The result of a call that may throw: Threw, or the value returned together
\* with what localStorage holds afterwards
Threw == [threw |-> TRUE]
Returned(v, raw) == [threw |-> FALSE, value |-> v, raw |-> raw]

\* save(data): writes the JSON text; throws when the write is rejected
save(data, w) ==
    IF w THEN Returned(data, JSONstringify(data)) ELSE Threw

getDefaultData ==
    [frequencies |-> <<>>,
     archivistNotesCache |-> EmptyObject,
     settings |-> [volume |-> DefaultVolume],
     version |-> VERSION]

SeedItem(i, now) ==
    [videoId |-> SEED_FREQUENCIES[i].videoId,
     title |-> SEED_FREQUENCIES[i].title,
     addedAt |-> now - (i - 1) * SeedStaggerMs,
     stars |-> <<>>,
     sessions |-> <<>>,
     skips |-> 0,
     completions |-> 0,
     source |-> IF Has(SEED_FREQUENCIES[i], "source")
                THEN SEED_FREQUENCIES[i].source ELSE "youtube"]

seedIfEmpty(data, raw, now, w) ==
    IF Len(data.frequencies) > 0
    THEN Returned(data, raw)
    ELSE save([data EXCEPT !.frequencies =
                  [i \in 1..Len(SEED_FREQUENCIES) |-> SeedItem(i, now)]], w)

\* data.version < n (false when version is undefined)
VersionBelow(data, n) == Has(data, "version") /\ data.version < n

\* v1 -> v2: copy the notes of the items into the cache
RECURSIVE NotesOf(_, _)
NotesOf(freqs, cache) ==
    IF freqs = <<>> THEN cache
    ELSE LET f == Head(freqs)
             c == IF Has(f, "archivistNotes") /\ f.archivistNotes # ""
                  THEN Put(cache, f.videoId, f.archivistNotes) ELSE cache
         IN NotesOf(Tail(freqs), c)

MigrateV2(data) ==
    IF VersionBelow(data, 2)
    THEN LET c == IF Has(data, "archivistNotesCache")
                  THEN data.archivistNotesCache ELSE EmptyObject
         IN Put(data, "archivistNotesCache", NotesOf(data.frequencies, c))
    ELSE data

AddSessions(f) ==
    IF ~Has(f, "sessions") THEN Put(f, "sessions", <<>>) ELSE f

MigrateV3(data) ==
    IF VersionBelow(data, 3)
    THEN [data EXCEPT !.frequencies = [i \in 1..Len(@) |-> AddSessions(@[i])]]
    ELSE data

AddCounters(f) ==
    LET g == IF ~Has(f, "skips") THEN Put(f, "skips", 0) ELSE f
    IN IF ~Has(g, "completions") THEN Put(g, "completions", 0) ELSE g

MigrateV4(data) ==
    IF VersionBelow(data, 4)
    THEN [data EXCEPT !.frequencies = [i \in 1..Len(@) |-> AddCounters(@[i])]]
    ELSE data

AddSource(f) ==
    IF ~Has(f, "source") THEN Put(f, "source", "youtube") ELSE f


\* MigrateV5, differently: the step is guarded by the previous step's version
MigrateV5OffByOne(data) ==
    IF VersionBelow(data, 4)
    THEN [data EXCEPT !.frequencies = [i \in 1..Len(@) |-> AddSource(@[i])]]
    ELSE data

MigrateV5(data) ==
    IF VersionBelow(data, 5)
    THEN [data EXCEPT !.frequencies = [i \in 1..Len(@) |-> AddSource(@[i])]]
    ELSE data


\* migrate, differently: the snapshot is saved before its version is set
migrateSaveFirst(data, w) ==
    LET m == MigrateV5(MigrateV4(MigrateV3(MigrateV2(data))))
        s == save(m, w)
    IN IF s.threw THEN s ELSE Returned(Put(m, "version", VERSION), s.raw)

migrate(data, w) ==
    save(Put(MigrateV5(MigrateV4(MigrateV3(MigrateV2(data)))), "version", VERSION), w)

\* load(): [value |-> the RadioData returned, raw |-> localStorage afterwards,
\* via |-> the return statement taken].  load never throws: an exception of
\* seedIfEmpty, JSON.parse or migrate ends in the catch block.
Loaded(v, raw, via) == [value |-> v, raw |-> raw, via |-> via]

\* load, differently: a stored snapshot without items is seeded again
loadSeedsEmpty(raw, now, w) ==
    IF raw = NoItem
    THEN LET r == seedIfEmpty(getDefaultData, raw, now, w)
         IN IF r.threw THEN Loaded(getDefaultData, raw, "catch")
            ELSE Loaded(r.value, r.raw, "seed")
    ELSE IF ParseThrows(raw)
    THEN Loaded(getDefaultData, raw, "catch")
    ELSE LET data == JSONparse(raw) IN
         IF ~IsArray(data, "frequencies")
         THEN Loaded(getDefaultData, raw, "invalid")
         ELSE IF ~Has(data, "version") \/ data.version # VERSION
         THEN LET r == migrate(data, w)
              IN IF r.threw THEN Loaded(getDefaultData, raw, "catch")
                 ELSE Loaded(r.value, r.raw, "migrate")
         ELSE LET r == seedIfEmpty(Put(data, "archivistNotesCache",
                                       IF Has(data, "archivistNotesCache")
                                       THEN data.archivistNotesCache ELSE EmptyObject),
                                   raw, now, w)
              IN IF r.threw THEN Loaded(getDefaultData, raw, "catch")
                 ELSE Loaded(r.value, r.raw,
                             IF Len(data.frequencies) = 0 THEN "seed" ELSE "stored")

load(raw, now, w) ==
    IF raw = NoItem
    THEN LET r == seedIfEmpty(getDefaultData, raw, now, w)
         IN IF r.threw THEN Loaded(getDefaultData, raw, "catch")
            ELSE Loaded(r.value, r.raw, "seed")
    ELSE IF ParseThrows(raw)
    THEN Loaded(getDefaultData, raw, "catch")
    ELSE LET data == JSONparse(raw) IN
         IF ~IsArray(data, "frequencies")
         THEN Loaded(getDefaultData, raw, "invalid")
         ELSE IF ~Has(data, "version") \/ data.version # VERSION
         THEN LET r == migrate(data, w)
              IN IF r.threw THEN Loaded(getDefaultData, raw, "catch")
                 ELSE Loaded(r.value, r.raw, "migrate")
         ELSE IF ~Has(data, "archivistNotesCache")
         THEN Loaded(Put(data, "archivistNotesCache", EmptyObject), raw, "stored")
         ELSE Loaded(data, raw, "stored")

-----------------------------------------------------------------------------
(* Helpers on the frequencies array *)

\* data.frequencies.find(f => f.videoId === videoId): its index, 0 if none
RECURSIVE FindFrom(_, _, _)
FindFrom(freqs, videoId, i) ==
    IF i > Len(freqs) THEN 0
    ELSE IF Has(freqs[i], "videoId") /\ freqs[i].videoId = videoId THEN i
    ELSE FindFrom(freqs, videoId, i + 1)

Find(freqs, videoId) == FindFrom(freqs, videoId, 1)

Abs(x) == IF x < 0 THEN -x ELSE x

\* Math.abs(s.timestamp - timestamp) < 1
WithinTolerance(a, b) == Abs(a - b) < Scale

\* array.sort((a, b) => a.timestamp - b.timestamp): a stable insertion sort
RECURSIVE InsertByTimestamp(_, _)
InsertByTimestamp(sorted, s) ==
    IF sorted = <<>> THEN <<s>>
    ELSE IF s.timestamp < Head(sorted).timestamp THEN <<s>> \o sorted
    ELSE <<Head(sorted)>> \o InsertByTimestamp(Tail(sorted), s)

RECURSIVE SortByTimestamp(_)
SortByTimestamp(stars) ==
    IF stars = <<>> THEN <<>>
    ELSE InsertByTimestamp(SortByTimestamp(SubSeq(stars, 1, Len(stars) - 1)),
                           stars[Len(stars)])

-----------------------------------------------------------------------------
(* The public operations.  Each returns                                     *)
(*   [raw |-> localStorage afterwards, out |-> how the call ended,          *)
(*    ret |-> the value returned (when the call returns one)]               *)
(* wl: whether a write made inside load is accepted; ws: whether the        *)
(* operation's own save is accepted.                                        *)

Done(raw) == [raw |-> raw, out |-> "returned"]
Gave(raw, v) == [raw |-> raw, out |-> "returned", ret |-> v]
Throws(raw, error) == [raw |-> raw, out |-> error]

NewFrequency(videoId, title, source, now) ==
    [videoId |-> videoId,
     title |-> title,
     addedAt |-> now,
     stars |-> <<>>,
     sessions |-> <<>>,
     skips |-> 0,
     completions |-> 0,
     source |-> source]


\* addFrequency, differently: an existing item takes the new title (an upsert)
addFrequencyUpsert(raw, now, videoId, title, source, wl, ws) ==
    LET l == load(raw, now, wl)
        data == l.value
        i == Find(data.frequencies, videoId)
        frequency == IF i # 0 THEN [data.frequencies[i] EXCEPT !.title = title]
                     ELSE NewFrequency(videoId, title, source, now)
        s == save([data EXCEPT !.frequencies =
                      IF i # 0 THEN [@ EXCEPT ![i] = frequency] ELSE Append(@, frequency)], ws)
    IN IF s.threw THEN Throws(l.raw, "saveFailed") ELSE Gave(s.raw, frequency)

addFrequency(raw, now, videoId, title, source, wl, ws) ==
    LET l == load(raw, now, wl)
        data == l.value
        i == Find(data.frequencies, videoId)
    IN IF i # 0 THEN Gave(l.raw, data.frequencies[i])
       ELSE LET frequency == NewFrequency(videoId, title, source, now)
                s == save([data EXCEPT !.frequencies = Append(@, frequency)], ws)
            IN IF s.threw THEN Throws(l.raw, "saveFailed")
               ELSE Gave(s.raw, frequency)

\* removeFrequency, differently: an unknown videoId is an error, as in removeStar
removeFrequencyStrict(raw, now, videoId, wl, ws) ==
    LET l == load(raw, now, wl)
        data == l.value
        Other(f) == ~(Has(f, "videoId") /\ f.videoId = videoId)
        s == save([data EXCEPT !.frequencies = SelectSeq(@, Other)], ws)
    IN IF Find(data.frequencies, videoId) = 0 THEN Throws(l.raw, "notFound")
       ELSE IF s.threw THEN Throws(l.raw, "saveFailed") ELSE Done(s.raw)

removeFrequency(raw, now, videoId, wl, ws) ==
    LET l == load(raw, now, wl)
        data == l.value
        Other(f) == ~(Has(f, "videoId") /\ f.videoId = videoId)
        s == save([data EXCEPT !.frequencies = SelectSeq(@, Other)], ws)
    IN IF s.threw THEN Throws(l.raw, "saveFailed") ELSE Done(s.raw)

getFrequency(raw, now, videoId, wl) ==
    LET l == load(raw, now, wl)
        i == Find(l.value.frequencies, videoId)
    IN IF i # 0 THEN Gave(l.raw, <<l.value.frequencies[i]>>) ELSE Gave(l.raw, <<>>)


\* StarExists, differently: only an equal time stamp counts as a duplicate
StarExistsExact(stars, timestamp) ==
    \E k \in 1..Len(stars) : stars[k].timestamp = timestamp

\* frequency.stars.some(s => Math.abs(s.timestamp - timestamp) < 1)
StarExists(stars, timestamp) ==
    \E k \in 1..Len(stars) : WithinTolerance(stars[k].timestamp, timestamp)


\* addStar, differently: an unknown videoId is ignored, as the record* calls do
addStarSilent(raw, now, videoId, timestamp, wl, ws) ==
    LET l == load(raw, now, wl)
        data == l.value
        i == Find(data.frequencies, videoId)
    IN IF i = 0 THEN Done(l.raw)
       ELSE IF StarExists(data.frequencies[i].stars, timestamp) THEN Done(l.raw)
       ELSE LET pushed == Append(data.frequencies[i].stars,
                                 [timestamp |-> timestamp, createdAt |-> now])
                s == save([data EXCEPT !.frequencies[i].stars = SortByTimestamp(pushed)], ws)
            IN IF s.threw THEN Throws(l.raw, "saveFailed") ELSE Done(s.raw)

\* addStar, differently: the star is pushed whether or not one is near
addStarAlways(raw, now, videoId, timestamp, wl, ws) ==
    LET l == load(raw, now, wl)
        data == l.value
        i == Find(data.frequencies, videoId)
    IN IF i = 0 THEN Throws(l.raw, "notFound")
       ELSE LET pushed == Append(data.frequencies[i].stars,
                                 [timestamp |-> timestamp, createdAt |-> now])
                s == save([data EXCEPT !.frequencies[i].stars = SortByTimestamp(pushed)], ws)
            IN IF s.threw THEN Throws(l.raw, "saveFailed") ELSE Done(s.raw)

addStar(raw, now, videoId, timestamp, wl, ws) ==
    LET l == load(raw, now, wl)
        data == l.value
        i == Find(data.frequencies, videoId)
    IN IF i = 0 THEN Throws(l.raw, "notFound")
       ELSE IF StarExists(data.frequencies[i].stars, timestamp) THEN Done(l.raw)
       ELSE LET pushed == Append(data.frequencies[i].stars,
                                 [timestamp |-> timestamp, createdAt |-> now])
                s == save([data EXCEPT !.frequencies[i].stars = SortByTimestamp(pushed)], ws)
            IN IF s.threw THEN Throws(l.raw, "saveFailed") ELSE Done(s.raw)

removeStar(raw, now, videoId, timestamp, wl, ws) ==
    LET l == load(raw, now, wl)
        data == l.value
        i == Find(data.frequencies, videoId)
        Far(st) == ~WithinTolerance(st.timestamp, timestamp)
    IN IF i = 0 THEN Throws(l.raw, "notFound")
       ELSE LET s == save([data EXCEPT !.frequencies[i].stars = SelectSeq(@, Far)], ws)
            IN IF s.threw THEN Throws(l.raw, "saveFailed") ELSE Done(s.raw)

\* recordSession, differently: the new session is put in front
recordSessionUnshift(raw, now, videoId, duration, wl, ws) ==
    IF duration < MinSessionSeconds THEN Done(raw)
    ELSE LET l == load(raw, now, wl)
             data == l.value
             i == Find(data.frequencies, videoId)
         IN IF i = 0 THEN Done(l.raw)
            ELSE IF ~Has(data.frequencies[i], "sessions") THEN Throws(l.raw, "typeError")
            ELSE LET session == [startedAt |-> now - duration * 1000,
                                 duration |-> duration]
                     s == save([data EXCEPT !.frequencies[i].sessions = <<session>> \o @], ws)
                 IN IF s.threw THEN Throws(l.raw, "saveFailed") ELSE Done(s.raw)

recordSession(raw, now, videoId, duration, wl, ws) ==
    IF duration < MinSessionSeconds THEN Done(raw)
    ELSE LET l == load(raw, now, wl)
             data == l.value
             i == Find(data.frequencies, videoId)
         IN IF i = 0 THEN Done(l.raw)
            \* frequency.sessions.push on an item without sessions: TypeError
            ELSE IF ~Has(data.frequencies[i], "sessions") THEN Throws(l.raw, "typeError")
            ELSE LET session == [startedAt |-> now - duration * 1000,
                                 duration |-> duration]
                     s == save([data EXCEPT !.frequencies[i].sessions = Append(@, session)], ws)
                 IN IF s.threw THEN Throws(l.raw, "saveFailed") ELSE Done(s.raw)

\* frequency[k] || 0
OrZero(f, k) == IF Has(f, k) THEN f[k] ELSE 0


\* recordSkip, differently: position 3 still counts as a top position
recordSkipInclusive(raw, now, videoId, position, wl, ws) ==
    LET l == load(raw, now, wl)
        data == l.value
        i == Find(data.frequencies, videoId)
    IN IF i = 0 THEN Done(l.raw)
       ELSE LET positionMultiplier == IF position <= TopPositions THEN 2 ELSE 1
                f == data.frequencies[i]
                s == save([data EXCEPT !.frequencies[i] =
                              Put(f, "skips", OrZero(f, "skips") + positionMultiplier)], ws)
            IN IF s.threw THEN Throws(l.raw, "saveFailed") ELSE Done(s.raw)

recordSkip(raw, now, videoId, position, wl, ws) ==
    LET l == load(raw, now, wl)
        data == l.value
        i == Find(data.frequencies, videoId)
    IN IF i = 0 THEN Done(l.raw)
       ELSE LET positionMultiplier == IF position < TopPositions THEN 2 ELSE 1
                f == data.frequencies[i]
                s == save([data EXCEPT !.frequencies[i] =
                              Put(f, "skips", OrZero(f, "skips") + positionMultiplier)], ws)
            IN IF s.threw THEN Throws(l.raw, "saveFailed") ELSE Done(s.raw)

recordCompletion(raw, now, videoId, wl, ws) ==
    LET l == load(raw, now, wl)
        data == l.value
        i == Find(data.frequencies, videoId)
    IN IF i = 0 THEN Done(l.raw)
       ELSE LET f == data.frequencies[i]
                s == save([data EXCEPT !.frequencies[i] =
                              Put(f, "completions", OrZero(f, "completions") + 1)], ws)
            IN IF s.threw THEN Throws(l.raw, "saveFailed") ELSE Done(s.raw)

setVideoDuration(raw, now, videoId, duration, wl, ws) ==
    LET l == load(raw, now, wl)
        data == l.value
        i == Find(data.frequencies, videoId)
    IN IF i = 0 THEN Done(l.raw)
       ELSE LET s == save([data EXCEPT !.frequencies[i] = Put(@, "duration", duration)], ws)
            IN IF s.threw THEN Throws(l.raw, "saveFailed") ELSE Done(s.raw)

exportData(raw, now, wl) ==
    LET l == load(raw, now, wl)
    IN Gave(l.raw, JSONstringify(l.value))

\* typeof data.settings.volume === 'number'
VolumeIsNumber(data) ==
    /\ Has(data, "settings")
    /\ Has(data.settings, "volume")
    /\ ~WrongType(data.settings, "volume")


\* InvalidFrequency, differently: the stars member is not looked at
InvalidFrequencyNoStars(freq) ==
    \/ FalsyString(freq, "videoId")
    \/ FalsyString(freq, "title")

\* !freq.videoId || !freq.title || !Array.isArray(freq.stars)
InvalidFrequency(freq) ==
    \/ FalsyString(freq, "videoId")
    \/ FalsyString(freq, "title")
    \/ ~IsArray(freq, "stars")


\* importData, differently: the notes cache is always rebuilt from the items
importDataRebuildCache(raw, jsonString, ws) ==
    IF ParseThrows(jsonString) THEN Gave(raw, FALSE)
    ELSE LET data == JSONparse(jsonString) IN
         IF ~IsArray(data, "frequencies") THEN Gave(raw, FALSE)
         ELSE IF ~VolumeIsNumber(data) THEN Gave(raw, FALSE)
         ELSE IF \E k \in 1..Len(data.frequencies) : InvalidFrequency(data.frequencies[k])
         THEN Gave(raw, FALSE)
         ELSE LET cached == Put(data, "archivistNotesCache",
                                NotesOf(data.frequencies, EmptyObject))
                  s == save(Put(cached, "version", VERSION), ws)
              IN IF s.threw THEN Gave(raw, FALSE) ELSE Gave(s.raw, TRUE)

importData(raw, jsonString, ws) ==
    IF ParseThrows(jsonString) THEN Gave(raw, FALSE)
    ELSE LET data == JSONparse(jsonString) IN
         IF ~IsArray(data, "frequencies") THEN Gave(raw, FALSE)
         ELSE IF ~VolumeIsNumber(data) THEN Gave(raw, FALSE)
         ELSE IF \E k \in 1..Len(data.frequencies) : InvalidFrequency(data.frequencies[k])
         THEN Gave(raw, FALSE)
         ELSE LET cached == IF ~Has(data, "archivistNotesCache")
                            THEN Put(data, "archivistNotesCache",
                                     NotesOf(data.frequencies, EmptyObject))
                            ELSE data
                  s == save(Put(cached, "version", VERSION), ws)
              IN IF s.threw THEN Gave(raw, FALSE) ELSE Gave(s.raw, TRUE)

clearAll == Done(NoItem)

-----------------------------------------------------------------------------
(* Read paths: getAllFrequencies, getStars, calculatePeaks *)

\* [...data.frequencies].sort((a, b) => b.addedAt - a.addedAt): stable
RECURSIVE InsertByAddedAt(_, _)
InsertByAddedAt(sorted, f) ==
    IF sorted = <<>> THEN <<f>>
    ELSE IF f.addedAt > Head(sorted).addedAt THEN <<f>> \o sorted
    ELSE <<Head(sorted)>> \o InsertByAddedAt(Tail(sorted), f)

RECURSIVE SortByAddedAt(_)
SortByAddedAt(freqs) ==
    IF freqs = <<>> THEN <<>>
    ELSE InsertByAddedAt(SortByAddedAt(SubSeq(freqs, 1, Len(freqs) - 1)),
                         freqs[Len(freqs)])


\* getAllFrequencies, differently: the stored array is sorted and saved
getAllFrequenciesInPlace(raw, now, wl) ==
    LET l == load(raw, now, wl)
        s == save([l.value EXCEPT !.frequencies = SortByAddedAt(@)], wl)
    IN IF s.threw THEN Throws(l.raw, "saveFailed")
       ELSE Gave(s.raw, SortByAddedAt(l.value.frequencies))

getAllFrequencies(raw, now, wl) ==
    LET l == load(raw, now, wl)
    IN Gave(l.raw, SortByAddedAt(l.value.frequencies))

getStars(raw, now, videoId, wl) ==
    LET g == getFrequency(raw, now, videoId, wl)
    IN Gave(g.raw, IF g.ret # <<>> THEN g.ret[1].stars ELSE <<>>)


\* Clusters, differently: a gap equal to windowSize starts a new cluster
RECURSIVE ClustersStrict(_, _, _, _, _)
ClustersStrict(sortedStars, i, currentCluster, clusters, windowSize) ==
    IF i > Len(sortedStars) THEN Append(clusters, currentCluster)
    ELSE LET gap == sortedStars[i].timestamp - sortedStars[i - 1].timestamp
         IN IF gap < windowSize * Scale
            THEN ClustersStrict(sortedStars, i + 1,
                                Append(currentCluster, sortedStars[i].timestamp),
                                clusters, windowSize)
            ELSE ClustersStrict(sortedStars, i + 1, <<sortedStars[i].timestamp>>,
                                Append(clusters, currentCluster), windowSize)

\* the loop of calculatePeaks: the clusters of the sorted stars, each a
\* sequence of time stamps; i is the index of the star looked at
RECURSIVE Clusters(_, _, _, _, _)
Clusters(sortedStars, i, currentCluster, clusters, windowSize) ==
    IF i > Len(sortedStars) THEN Append(clusters, currentCluster)
    ELSE LET gap == sortedStars[i].timestamp - sortedStars[i - 1].timestamp
         IN IF gap <= windowSize * Scale
            THEN Clusters(sortedStars, i + 1,
                          Append(currentCluster, sortedStars[i].timestamp),
                          clusters, windowSize)
            ELSE Clusters(sortedStars, i + 1, <<sortedStars[i].timestamp>>,
                          Append(clusters, currentCluster), windowSize)

RECURSIVE Sum(_)
Sum(timestamps) ==
    IF timestamps = <<>> THEN 0 ELSE Head(timestamps) + Sum(Tail(timestamps))

\* { center, size } of a cluster; the center is the fraction sum / size
\* (in units of 1/Scale second)
Peak(timestamps) == [sum |-> Sum(timestamps), size |-> Len(timestamps)]

\* a.center - b.center < 0
CenterBefore(a, b) == a.sum * b.size < b.sum * a.size

\* the comparator of peaks.sort is negative: a is placed before b
SizeBefore(a, b) ==
    IF b.size # a.size THEN b.size - a.size < 0 ELSE CenterBefore(a, b)

RECURSIVE InsertBySize(_, _)
InsertBySize(sorted, p) ==
    IF sorted = <<>> THEN <<p>>
    ELSE IF SizeBefore(p, Head(sorted)) THEN <<p>> \o sorted
    ELSE <<Head(sorted)>> \o InsertBySize(Tail(sorted), p)

RECURSIVE SortBySize(_)
SortBySize(peaks) ==
    IF peaks = <<>> THEN <<>>
    ELSE InsertBySize(SortBySize(SubSeq(peaks, 1, Len(peaks) - 1)), peaks[Len(peaks)])

RECURSIVE InsertByCenter(_, _)
InsertByCenter(sorted, p) ==
    IF sorted = <<>> THEN <<p>>
    ELSE IF CenterBefore(p, Head(sorted)) THEN <<p>> \o sorted
    ELSE <<Head(sorted)>> \o InsertByCenter(Tail(sorted), p)

RECURSIVE SortByCenter(_)
SortByCenter(peaks) ==
    IF peaks = <<>> THEN <<>>
    ELSE InsertByCenter(SortByCenter(SubSeq(peaks, 1, Len(peaks) - 1)), peaks[Len(peaks)])

\* Math.round(p.center) seconds, written in units of 1/Scale second like the
\* time stamps: Math.round(x) is floor(x + 1/2)
RoundCenter(p) == Scale * ((2 * p.sum + p.size * Scale) \div (2 * p.size * Scale))

\* calculatePeaks from "if (stars.length === 0)" on
PeaksOf(stars, windowSize) ==
    IF Len(stars) = 0 THEN <<>>
    ELSE IF Len(stars) <= 2 THEN [k \in 1..Len(stars) |-> stars[k].timestamp]
    ELSE LET sortedStars == SortByTimestamp(stars)
             clusters == Clusters(sortedStars, 2, <<sortedStars[1].timestamp>>, <<>>, windowSize)
             peaks == SortBySize([k \in 1..Len(clusters) |-> Peak(clusters[k])])
             topPeaks == SortByCenter(SubSeq(peaks, 1,
                            IF Len(peaks) < DEFAULT_PEAK_COUNT THEN Len(peaks)
                            ELSE DEFAULT_PEAK_COUNT))
         IN [k \in 1..Len(topPeaks) |-> RoundCenter(topPeaks[k])]

calculatePeaks(raw, now, videoId, windowSize, wl) ==
    LET g == getStars(raw, now, videoId, wl)
    IN Gave(g.raw, PeaksOf(g.ret, windowSize))

-----------------------------------------------------------------------------
(* Ranking: calculateConfidence, calculateRecencyScore,                     *)
(* calculateEngagementScore, getEngagementRankedFrequencies.                *)
(* The scores are fractions and are compared exactly.  With the weights     *)
(* STAR_WEIGHT 1.0, SKIP_WEIGHT -0.3, COMPLETION_WEIGHT 0.5:                *)
(*   rawEngagement = (10 stars - 3 skips + 5 completions [plays > 0]) / 10  *)
(*   confidence    = 1 + 40 * max(0, rawEngagement), an integer             *)
(*   recency       = H / (H + age), H = 168 h and age = now - addedAt in ms *)
(*   score         = 0.3 * recency + 0.7 * confidence / maxConfidence       *)

\* frequency.stars?.length || 0, frequency.sessions?.length || 0
LengthOrZero(f, k) == IF Has(f, k) THEN Len(f[k]) ELSE 0


\* RawEngagementTenths, differently: skips count for the item
RawEngagementTenthsSkipsUp(f) ==
    10 * LengthOrZero(f, "stars") + 3 * OrZero(f, "skips")
    + (IF LengthOrZero(f, "sessions") > 0 THEN 5 * OrZero(f, "completions") ELSE 0)

\* 10 * rawEngagement; completionRate * COMPLETION_WEIGHT * plays is
\* completions / 2 when plays > 0 and 0 otherwise
RawEngagementTenths(f) ==
    10 * LengthOrZero(f, "stars") - 3 * OrZero(f, "skips")
    + (IF LengthOrZero(f, "sessions") > 0 THEN 5 * OrZero(f, "completions") ELSE 0)

calculateConfidence(f) ==
    1 + (CONFIDENCE_ALPHA * (IF RawEngagementTenths(f) > 0 THEN RawEngagementTenths(f) ELSE 0))
            \div 10

\* Math.max(1, ...frequencies.map(f => this.calculateConfidence(f)))
RECURSIVE MaxConfidence(_)
MaxConfidence(freqs) ==
    IF freqs = <<>> THEN 1
    ELSE LET c == calculateConfidence(Head(freqs))
             m == MaxConfidence(Tail(freqs))
         IN IF c > m THEN c ELSE m

RECURSIVE GCD(_, _)
GCD(a, b) == IF b = 0 THEN a ELSE GCD(b, a % b)

HalfLifeMs == RECENCY_HALF_LIFE_HOURS * MsPerHour

\* The sign of 3 H dA M - 7 dC (H + aP)(H + aE) for dA, dC > 0 and ages
\* aP, aE >= 0: the recency gained over dA against the normalised confidence
\* lost over dC.  Computed without leaving 32 bits: the times are first
\* divided by their common divisor g; then, (H + aP)(H + aE) being at least
\* H (H + aP + aE), the difference is negative as soon as
\* floor(3 dA M / 7 dC) < H + aP + aE; else the products are formed.
RecencyAgainstConfidence(dA, dC, aP, aE, maxConfidence) ==
    LET g == GCD(HalfLifeMs, GCD(aP, aE))
        H == HalfLifeMs \div g
        p == aP \div g
        e == aE \div g
        d == dA \div g
        gained == 3 * H * d * maxConfidence
        lost == 7 * dC * (H + p) * (H + e)
    IN IF (3 * d * maxConfidence) \div (7 * dC) < H + p + e THEN -1
       ELSE IF gained < lost THEN -1
       ELSE IF gained = lost THEN 0
       ELSE 1

\* calculateEngagementScore(p, maxConfidence) > calculateEngagementScore(e, maxConfidence)
ScoreAbove(p, e, maxConfidence, now) ==
    LET aP == now - p.addedAt
        aE == now - e.addedAt
        cP == calculateConfidence(p)
        cE == calculateConfidence(e)
    IN IF aP <= aE /\ cP >= cE THEN aP < aE \/ cP > cE
       ELSE IF aP >= aE /\ cP <= cE THEN FALSE
       ELSE IF aP < aE
            \* p is newer and less engaged
            THEN RecencyAgainstConfidence(aE - aP, cE - cP, aP, aE, maxConfidence) = 1
            \* p is older and more engaged
            ELSE RecencyAgainstConfidence(aP - aE, cP - cE, aP, aE, maxConfidence) = -1


\* InsertByScore, differently: an item goes before the items of equal score
RECURSIVE InsertByScoreUnstable(_, _, _, _)
InsertByScoreUnstable(sorted, f, maxConfidence, now) ==
    IF sorted = <<>> THEN <<f>>
    ELSE IF ~ScoreAbove(Head(sorted), f, maxConfidence, now) THEN <<f>> \o sorted
    ELSE <<Head(sorted)>> \o InsertByScoreUnstable(Tail(sorted), f, maxConfidence, now)

\* scored.sort((a, b) => b.score - a.score): stable
RECURSIVE InsertByScore(_, _, _, _)
InsertByScore(sorted, f, maxConfidence, now) ==
    IF sorted = <<>> THEN <<f>>
    ELSE IF ScoreAbove(f, Head(sorted), maxConfidence, now) THEN <<f>> \o sorted
    ELSE <<Head(sorted)>> \o InsertByScore(Tail(sorted), f, maxConfidence, now)

RECURSIVE SortByScore(_, _, _)
SortByScore(freqs, maxConfidence, now) ==
    IF freqs = <<>> THEN <<>>
    ELSE InsertByScore(SortByScore(SubSeq(freqs, 1, Len(freqs) - 1), maxConfidence, now),
                       freqs[Len(freqs)], maxConfidence, now)

getEngagementRankedFrequencies(raw, now, wl) ==
    LET l == load(raw, now, wl)
        frequencies == l.value.frequencies
    IN IF Len(frequencies) = 0 THEN Gave(l.raw, <<>>)
       ELSE Gave(l.raw, SortByScore(frequencies, MaxConfidence(frequencies), now))

-----------------------------------------------------------------------------
(* Snapshots an earlier session left in localStorage, written by this or an *)
(* earlier version of the program.  A version-v snapshot holds what that    *)
(* version's schema had: the notes cache since v2, sessions since v3, skips *)
(* and completions since v4, source since v5.                               *)

SnapshotItem(v, videoId, notes) ==
    [videoId |-> videoId,
     title |-> "Old",
     addedAt |-> Epoch - 60000,
     stars |-> <<[timestamp |-> 1, createdAt |-> Epoch - 50000]>>]
    @@ (IF notes # "" THEN [archivistNotes |-> notes] ELSE EmptyObject)
    @@ (IF v >= 3
        THEN [sessions |-> <<[startedAt |-> Epoch - 40000, duration |-> 10]>>]
        ELSE EmptyObject)
    @@ (IF v >= 4 THEN [skips |-> 1, completions |-> 1] ELSE EmptyObject)
    @@ (IF v >= 5 THEN [source |-> "youtube"] ELSE EmptyObject)

SnapshotOf(v) ==
    [frequencies |-> <<SnapshotItem(v, "x1", "n"), SnapshotItem(v, "w6H_OPzo9Gk", "")>>,
     settings |-> [volume |-> 5],
     version |-> v]
    @@ (IF v >= 2 THEN [archivistNotesCache |-> ("x1" :> "n")] ELSE EmptyObject)

StoredVersions == 1..VERSION

InitialStorage ==
    {NoItem} \cup {JSONstringify(SnapshotOf(v)) : v \in StoredVersions}

-----------------------------------------------------------------------------
(* Documents offered to importData *)

BackupStar(t) == [timestamp |-> t, createdAt |-> Epoch - 30000]

BackupItem(videoId, stars) ==
    [videoId |-> videoId, title |-> "B", addedAt |-> Epoch - 20000, stars |-> stars]

FullItem(videoId, stars) ==
    BackupItem(videoId, stars)
    @@ [sessions |-> <<>>, skips |-> 0, completions |-> 0, source |-> "soundcloud"]

Doc(frequencies) ==
    [frequencies |-> frequencies,
     archivistNotesCache |-> EmptyObject,
     settings |-> [volume |-> 3],
     version |-> VERSION]

\* a backup written by version 1: no cache, no sessions, counters or source
V1BackupDoc ==
    [frequencies |-> <<BackupItem("x1", <<BackupStar(0)>>) @@ [archivistNotes |-> "m"],
                       BackupItem("y2", <<>>)>>,
     settings |-> [volume |-> 3],
     version |-> 1]

\* hand-edited documents that pass the validation
UnsortedDoc == Doc(<<FullItem("x1", <<BackupStar(4), BackupStar(0)>>)>>)
CloseStarsDoc ==
    Doc(<<FullItem("x1", <<BackupStar(0), BackupStar(1), BackupStar(2)>>)>>)
DuplicateIdDoc == Doc(<<FullItem("x1", <<>>), FullItem("x1", <<BackupStar(2)>>)>>)

\* documents that fail the validation
NoFrequenciesDoc == [settings |-> [volume |-> 3], version |-> VERSION]
FrequenciesNotArrayDoc ==
    [frequencies |-> <<>>, wrongType |-> {"frequencies"},
     settings |-> [volume |-> 3], version |-> VERSION]
NoSettingsDoc == [frequencies |-> <<FullItem("x1", <<>>)>>, version |-> VERSION]
VolumeNotNumberDoc ==
    [frequencies |-> <<FullItem("x1", <<>>)>>,
     settings |-> [volume |-> 0, wrongType |-> {"volume"}],
     version |-> VERSION]
NoVideoIdDoc ==
    Doc(<<FullItem("y2", <<>>),
          [title |-> "B", addedAt |-> Epoch - 20000, stars |-> <<>>]>>)
EmptyTitleDoc ==
    Doc(<<FullItem("y2", <<>>), [FullItem("x1", <<>>) EXCEPT !.title = ""]>>)
NoStarsDoc ==
    Doc(<<FullItem("y2", <<>>),
          [videoId |-> "x1", title |-> "B", addedAt |-> Epoch - 20000]>>)
StarsNotArrayDoc ==
    Doc(<<FullItem("y2", <<>>), FullItem("x1", <<>>) @@ [wrongType |-> {"stars"}]>>)

ValidDocs == {V1BackupDoc, UnsortedDoc, CloseStarsDoc, DuplicateIdDoc}

InvalidDocs ==
    {NoFrequenciesDoc, FrequenciesNotArrayDoc, NoSettingsDoc, VolumeNotNumberDoc,
     NoVideoIdDoc, EmptyTitleDoc, NoStarsDoc, StarsNotArrayDoc}

ImportTexts == {Garbage} \cup {JSONstringify(d) : d \in ValidDocs \cup InvalidDocs}

-----------------------------------------------------------------------------
(* Inputs of the operations *)

OpIds == {"w6H_OPzo9Gk", "x1"}
Titles == {"T", ""}
Sources == {"youtube", "soundcloud"}
Timestamps == 0..MaxT
Durations == {MinSessionSeconds - 1, MinSessionSeconds}
Positions == {0, TopPositions - 1, TopPositions}
VideoDurations == {200}
WindowSizes == {1, DEFAULT_WINDOW_SIZE}

\* whether localStorage accepts a write
Writes == IF faulty THEN BOOLEAN ELSE {TRUE}

ItemOf(data, videoId) == data.frequencies[Find(data.frequencies, videoId)]
Present(data, videoId) == Find(data.frequencies, videoId) # 0

\* the record of a call: its name, the item it names, its outcome
Call(op, args, r) ==
    ("op" :> op) @@ args @@ [k \in DOMAIN r \ {"raw"} |-> r[k]]

-----------------------------------------------------------------------------
(* Peak navigation of the player view; times in units of 1/Scale second *)

\* currentPeaks.find(peak => peak > bound): the first match in a one-element
\* tuple, <<>> if none
FindAbove(peaks, bound) ==
    LET found == {k \in 1..Len(peaks) : peaks[k] > bound}
    IN IF found = {} THEN <<>>
       ELSE <<peaks[CHOOSE k \in found : \A j \in found : k <= j]>>

\* reversedPeaks.find(peak => peak < bound)
FindBelow(peaks, bound) ==
    LET found == {k \in 1..Len(peaks) : peaks[k] < bound}
    IN IF found = {} THEN <<>>
       ELSE <<peaks[CHOOSE k \in found : \A j \in found : k <= j]>>

Reverse(peaks) == [k \in 1..Len(peaks) |-> peaks[Len(peaks) + 1 - k]]

\* !targetPeak: undefined, or the number 0
Falsy(found) == found = <<>> \/ found[1] = 0

\* navigateToPeak, differently: a peak exactly 1 s away counts as found
navigateToPeakInclusive(currentPeaks, currentTime, direction) ==
    IF Len(currentPeaks) = 0 THEN <<>>
    ELSE IF direction = "next"
    THEN LET targetPeak == FindAbove(currentPeaks, currentTime + Scale - 1)
         IN IF Falsy(targetPeak) THEN <<currentPeaks[1]>> ELSE targetPeak
    ELSE LET targetPeak == FindBelow(Reverse(currentPeaks), currentTime - Scale + 1)
         IN IF Falsy(targetPeak) THEN <<currentPeaks[Len(currentPeaks)]>> ELSE targetPeak

\* the time controls.seekTo is called with, in a one-element tuple; <<>> when
\* no seek is made
navigateToPeak(currentPeaks, currentTime, direction) ==
    IF Len(currentPeaks) = 0 THEN <<>>
    ELSE IF direction = "next"
    THEN LET targetPeak == FindAbove(currentPeaks, currentTime + Scale)
         IN IF Falsy(targetPeak) THEN <<currentPeaks[1]>> ELSE targetPeak
    ELSE LET targetPeak == FindBelow(Reverse(currentPeaks), currentTime - Scale)
         IN IF Falsy(targetPeak) THEN <<currentPeaks[Len(currentPeaks)]>> ELSE targetPeak

-----------------------------------------------------------------------------
(* The player hooks: useYouTubePlayer and useSoundCloudPlayer, each a       *)
(* reducer state driven by the events of its embedded player                *)

PlayerStatus == {"idle", "scanning", "transmitting", "halted", "signal-lost"}

createInitialState ==
    [isReady |-> FALSE, isPlaying |-> FALSE, isMuted |-> FALSE, volume |-> 100,
     currentTime |-> 0, duration |-> 0, videoId |-> "null", status |-> "idle"]

InitialPlayers == [youtube |-> createInitialState, soundcloud |-> createInitialState]

playerReducer(state, type, payload) ==
    CASE type = "SET_READY" -> [state EXCEPT !.isReady = payload]
      [] type = "SET_PLAYING" ->
            [state EXCEPT !.isPlaying = payload,
                          !.status = IF payload THEN "transmitting" ELSE "halted"]
      [] type = "SET_MUTED" -> [state EXCEPT !.isMuted = payload]
      [] type = "SET_VOLUME" -> [state EXCEPT !.volume = payload]
      [] type = "SET_CURRENT_TIME" -> [state EXCEPT !.currentTime = payload]
      [] type = "SET_DURATION" -> [state EXCEPT !.duration = payload]
      [] type = "SET_VIDEO_ID" -> [state EXCEPT !.videoId = payload]
      [] type = "SET_STATUS" -> [state EXCEPT !.status = payload]
      [] OTHER -> state

\* useYouTubePlayer
handleReady(state, volume, isMuted) ==
    playerReducer(playerReducer(playerReducer(state, "SET_READY", TRUE),
                                "SET_VOLUME", volume), "SET_MUTED", isMuted)

handleStateChange(state, playerState, duration) ==
    CASE playerState = "PLAYING" -> playerReducer(state, "SET_PLAYING", TRUE)
      [] playerState = "PAUSED" -> playerReducer(state, "SET_PLAYING", FALSE)
      [] playerState = "ENDED" ->
            playerReducer(playerReducer(state, "SET_PLAYING", FALSE), "SET_STATUS", "halted")
      [] playerState = "BUFFERING" -> playerReducer(state, "SET_STATUS", "scanning")
      [] playerState = "CUED" -> playerReducer(state, "SET_DURATION", duration)
      [] OTHER -> state

handleError(state) ==
    playerReducer(playerReducer(state, "SET_STATUS", "signal-lost"), "SET_PLAYING", FALSE)

\* the 500 ms interval started on PLAYING
timeUpdate(state, currentTime, duration) ==
    playerReducer(playerReducer(state, "SET_CURRENT_TIME", currentTime),
                  "SET_DURATION", duration)

loadVideo(state, videoId) ==
    IF ~state.isReady THEN state
    ELSE playerReducer(playerReducer(state, "SET_VIDEO_ID", videoId),
                       "SET_STATUS", "scanning")

\* useSoundCloudPlayer: the handlers bound to the widget's events
scPlay(state) ==
    playerReducer(playerReducer(state, "SET_PLAYING", TRUE), "SET_STATUS", "transmitting")

scPause(state) ==
    playerReducer(playerReducer(state, "SET_PLAYING", FALSE), "SET_STATUS", "idle")

scPlayProgress(state, currentTime) == playerReducer(state, "SET_CURRENT_TIME", currentTime)

scFinish(state) ==
    playerReducer(playerReducer(state, "SET_PLAYING", FALSE), "SET_STATUS", "halted")

scError(state) ==
    playerReducer(playerReducer(state, "SET_STATUS", "signal-lost"), "SET_PLAYING", FALSE)

\* loadVideo of the SoundCloud hook: the load is queued or made, the state
\* changes alike
scLoadVideo(state, trackUrl) ==
    playerReducer(playerReducer(state, "SET_VIDEO_ID", trackUrl), "SET_STATUS", "scanning")

\* initPlayer failing: the catch block
scInitFailed(state) == playerReducer(state, "SET_STATUS", "signal-lost")

-----------------------------------------------------------------------------
(* Writers sharing localStorage.  A StorageManager operation reads the whole *)
(* snapshot with load(), changes it in memory and writes the whole snapshot  *)
(* back with save(); two tabs of the application are two such writers.       *)

Writers == {"a", "b"}

Idle == [at |-> "idle"]

\* no writer holds a snapshot, nothing was recorded
NoTabs ==
    [pending |-> [w \in Writers |-> Idle],
     ledger |-> [v \in OpIds |-> [skips |-> 0, completions |-> 0]],
     overlapped |-> FALSE,
     begun |-> 0]

\* recordSkip after its load(), differently: the count starts over
recordSkipOnFresh(data, raw, videoId, position, ws) ==
    LET i == Find(data.frequencies, videoId)
    IN IF i = 0 THEN Done(raw)
       ELSE LET positionMultiplier == IF position < TopPositions THEN 2 ELSE 1
                f == data.frequencies[i]
                s == save([data EXCEPT !.frequencies[i] =
                              Put(f, "skips", positionMultiplier)], ws)
            IN IF s.threw THEN Throws(raw, "saveFailed") ELSE Done(s.raw)

\* recordSkip after its load(): find, the change in memory, save
recordSkipOn(data, raw, videoId, position, ws) ==
    LET i == Find(data.frequencies, videoId)
    IN IF i = 0 THEN Done(raw)
       ELSE LET positionMultiplier == IF position < TopPositions THEN 2 ELSE 1
                f == data.frequencies[i]
                s == save([data EXCEPT !.frequencies[i] =
                              Put(f, "skips", OrZero(f, "skips") + positionMultiplier)], ws)
            IN IF s.threw THEN Throws(raw, "saveFailed") ELSE Done(s.raw)

\* recordCompletion after its load(): find, the change in memory, save
recordCompletionOn(data, raw, videoId, ws) ==
    LET i == Find(data.frequencies, videoId)
    IN IF i = 0 THEN Done(raw)
       ELSE LET f == data.frequencies[i]
                s == save([data EXCEPT !.frequencies[i] =
                              Put(f, "completions", OrZero(f, "completions") + 1)], ws)
            IN IF s.threw THEN Throws(raw, "saveFailed") ELSE Done(s.raw)

\* what a completed operation adds to the item's counters
EffectOf(p) ==
    IF p.op = "recordSkip"
    THEN [skips |-> IF p.position < TopPositions THEN 2 ELSE 1, completions |-> 0]
    ELSE [skips |-> 0, completions |-> 1]

-----------------------------------------------------------------------------
(* Actions: one per operation *)

\* a call is made while the run has calls left; TickMs pass until the next call
Counted ==
    /\ calls < MaxCalls
    /\ calls' = calls + 1
    /\ clock' = clock + TickMs
    /\ UNCHANGED <<faulty, player, tabs>>

Load ==
    \E wl \in Writes :
        LET l == load(storage, clock, wl)
        IN /\ storage' = l.raw
           /\ last' = [op |-> "load", out |-> "returned", ret |-> l.value, via |-> l.via]
           /\ Counted

AddFrequency ==
    \E videoId \in OpIds, title \in Titles, source \in Sources, wl \in Writes, ws \in Writes :
        LET r == addFrequency(storage, clock, videoId, title, source, wl, ws)
        IN /\ storage' = r.raw
           /\ last' = Call("addFrequency",
                           [videoId |-> videoId], r)
           /\ Counted

RemoveFrequency ==
    \E videoId \in OpIds, wl \in Writes, ws \in Writes :
        LET r == removeFrequency(storage, clock, videoId, wl, ws)
        IN /\ storage' = r.raw
           /\ last' = Call("removeFrequency", [videoId |-> videoId], r)
           /\ Counted

GetFrequency ==
    \E videoId \in OpIds, wl \in Writes :
        LET r == getFrequency(storage, clock, videoId, wl)
        IN /\ storage' = r.raw
           /\ last' = Call("getFrequency", [videoId |-> videoId], r)
           /\ Counted

AddStar ==
    \E videoId \in OpIds, timestamp \in Timestamps, wl \in Writes, ws \in Writes :
        LET r == addStar(storage, clock, videoId, timestamp, wl, ws)
        IN /\ storage' = r.raw
           /\ last' = Call("addStar", [videoId |-> videoId], r)
           /\ Counted

RemoveStar ==
    \E videoId \in OpIds, timestamp \in Timestamps, wl \in Writes, ws \in Writes :
        LET r == removeStar(storage, clock, videoId, timestamp, wl, ws)
        IN /\ storage' = r.raw
           /\ last' = Call("removeStar", [videoId |-> videoId], r)
           /\ Counted

RecordSession ==
    \E videoId \in OpIds, duration \in Durations, wl \in Writes, ws \in Writes :
        LET r == recordSession(storage, clock, videoId, duration, wl, ws)
        IN /\ storage' = r.raw
           /\ last' = Call("recordSession", [videoId |-> videoId], r)
           /\ Counted

RecordSkip ==
    \E videoId \in OpIds, position \in Positions, wl \in Writes, ws \in Writes :
        LET r == recordSkip(storage, clock, videoId, position, wl, ws)
        IN /\ storage' = r.raw
           /\ last' = Call("recordSkip", [videoId |-> videoId], r)
           /\ Counted

RecordCompletion ==
    \E videoId \in OpIds, wl \in Writes, ws \in Writes :
        LET r == recordCompletion(storage, clock, videoId, wl, ws)
        IN /\ storage' = r.raw
           /\ last' = Call("recordCompletion", [videoId |-> videoId], r)
           /\ Counted

SetVideoDuration ==
    \E videoId \in OpIds, duration \in VideoDurations, wl \in Writes, ws \in Writes :
        LET r == setVideoDuration(storage, clock, videoId, duration, wl, ws)
        IN /\ storage' = r.raw
           /\ last' = Call("setVideoDuration", [videoId |-> videoId], r)
           /\ Counted

\* exportData; the record keeps what localStorage held before the call
ExportData ==
    \E wl \in Writes :
        LET r == exportData(storage, clock, wl)
        IN /\ storage' = r.raw
           /\ last' = Call("exportData", [before |-> storage], r)
           /\ Counted

\* importData of a document, or of the text exportData has just returned
ImportData ==
    \E jsonString \in ImportTexts \cup (IF last.op = "exportData" THEN {last.ret} ELSE {}),
       ws \in Writes :
        LET r == importData(storage, jsonString, ws)
        IN /\ storage' = r.raw
           /\ last' = Call("importData",
                           IF last.op = "exportData" /\ jsonString = last.ret
                           THEN [roundTrip |-> TRUE, before |-> last.before]
                           ELSE [roundTrip |-> FALSE], r)
           /\ Counted

GetAllFrequencies ==
    \E wl \in Writes :
        LET r == getAllFrequencies(storage, clock, wl)
        IN /\ storage' = r.raw
           /\ last' = Call("getAllFrequencies", EmptyObject, r)
           /\ Counted

GetStars ==
    \E videoId \in OpIds, wl \in Writes :
        LET r == getStars(storage, clock, videoId, wl)
        IN /\ storage' = r.raw
           /\ last' = Call("getStars", [videoId |-> videoId], r)
           /\ Counted

GetEngagementRankedFrequencies ==
    \E wl \in Writes :
        LET r == getEngagementRankedFrequencies(storage, clock, wl)
        IN /\ Counted
           /\ storage' = r.raw
           /\ last' = Call("getEngagementRankedFrequencies", EmptyObject, r)

CalculatePeaks ==
    \E videoId \in OpIds, windowSize \in WindowSizes, wl \in Writes :
        LET r == calculatePeaks(storage, clock, videoId, windowSize, wl)
        IN /\ storage' = r.raw
           /\ last' = Call("calculatePeaks",
                           [videoId |-> videoId, windowSize |-> windowSize], r)
           /\ Counted

ClearAll ==
    /\ storage' = clearAll.raw
    /\ last' = Call("clearAll", EmptyObject, clearAll)
    /\ Counted

-----------------------------------------------------------------------------
(* Specifications *)

Start ==
    /\ storage \in InitialStorage
    /\ clock = Epoch
    /\ last = [op |-> "none", out |-> "returned"]
    /\ calls = 0
    /\ player = InitialPlayers
    /\ tabs = NoTabs

\* localStorage accepts every write
Init == Start /\ faulty = FALSE

Next ==
    \/ Load
    \/ AddFrequency
    \/ RemoveFrequency
    \/ GetFrequency
    \/ AddStar
    \/ RemoveStar
    \/ RecordSession
    \/ RecordSkip
    \/ RecordCompletion
    \/ SetVideoDuration
    \/ ExportData
    \/ ImportData
    \/ ClearAll
    \/ CalculatePeaks
    \/ GetAllFrequencies
    \/ GetStars
    \/ GetEngagementRankedFrequencies

Spec == Init /\ [][Next]_vars

\* the store without importData: what the operations make of the seeds and of
\* the snapshots of the earlier versions
NextStars ==
    \/ Load
    \/ AddFrequency
    \/ RemoveFrequency
    \/ AddStar
    \/ RemoveStar

SpecStars == Init /\ [][NextStars]_vars

-----------------------------------------------------------------------------
(* calculatePeaks on its own: a version-5 snapshot whose item x1 holds any  *)
(* ascending selection of time stamps out of PeakSelections                 *)

\* seconds: 0 5 10 and 100 105 135 lie within 30 s of their neighbours (105
\* and 135 exactly 30 s apart)
PeakNear == {0, 5, 10, 100, 105, 135}

\* seconds that stand alone but for 700 and 701, which are 1 s apart
PeakFar == {200, 300, 400, 500, 700, 701}

\* the selections, in units of 1/Scale second; unit 1 is no whole second
PeakSelections ==
    {{sec * Scale : sec \in A \cup B} \cup C :
        A \in SUBSET PeakNear, B \in {{}, {700, 701}, PeakFar}, C \in {{}, {1}}}

RECURSIVE Ascending(_)
Ascending(S) ==
    IF S = {} THEN <<>>
    ELSE LET m == CHOOSE x \in S : \A y \in S : x <= y
         IN <<m>> \o Ascending(S \ {m})

PeakSnapshot(S) ==
    [frequencies |->
        <<[NewFrequency("x1", "T", "youtube", Epoch - TickMs) EXCEPT
              !.stars = [k \in 1..Cardinality(S) |->
                            [timestamp |-> Ascending(S)[k], createdAt |-> Epoch - TickMs]]]>>,
     archivistNotesCache |-> EmptyObject,
     settings |-> [volume |-> DefaultVolume],
     version |-> VERSION]

InitPeaks ==
    /\ storage \in {JSONstringify(PeakSnapshot(S)) : S \in PeakSelections}
    /\ clock = Epoch
    /\ faulty = FALSE
    /\ last = [op |-> "none", out |-> "returned"]
    /\ calls = 0
    /\ player = InitialPlayers
    /\ tabs = NoTabs

SpecPeaks == InitPeaks /\ [][CalculatePeaks]_vars

-----------------------------------------------------------------------------
(* The mutating operations on a localStorage that may reject any write *)

InitQuota == Start /\ faulty = TRUE

NextQuota ==
    \/ AddFrequency
    \/ RemoveFrequency
    \/ AddStar
    \/ RemoveStar
    \/ RecordSession
    \/ RecordSkip
    \/ RecordCompletion
    \/ SetVideoDuration
    \/ ImportData
    \/ ClearAll

SpecQuota == InitQuota /\ [][NextQuota]_vars

-----------------------------------------------------------------------------
(* Seeding: load, addFrequency, removeFrequency and clearAll on an empty    *)
(* localStorage and on snapshots holding a single item                      *)

SingleItemSnapshot(v) == [SnapshotOf(v) EXCEPT !.frequencies = SubSeq(@, 1, 1)]

InitSeed ==
    /\ storage \in {NoItem} \cup {JSONstringify(SingleItemSnapshot(v)) : v \in StoredVersions}
    /\ clock = Epoch
    /\ faulty = FALSE
    /\ last = [op |-> "none", out |-> "returned"]
    /\ calls = 0
    /\ player = InitialPlayers
    /\ tabs = NoTabs

NextSeed ==
    \/ Load
    \/ AddFrequency
    \/ RemoveFrequency
    \/ ClearAll

SpecSeed == InitSeed /\ [][NextSeed]_vars

-----------------------------------------------------------------------------
(* The player hooks on their own: the events of the two embedded players in *)
(* any order; last names the event handled                                  *)

PlayerTimes == {0, 1}
PlayerDurations == {0, 200}
PlayerIds == {"x1", "y2"}

\* the hook has handled an event: nothing of the store changes
Handled(source, event) ==
    /\ last' = [op |-> event, source |-> source, out |-> "returned"]
    /\ UNCHANGED <<storage, clock, faulty, calls, tabs>>

YTReady ==
    \E isMuted \in BOOLEAN :
        /\ player' = [player EXCEPT !.youtube = handleReady(@, 100, isMuted)]
        /\ Handled("youtube", "ready")

YTStateChange ==
    \E playerState \in {"PLAYING", "PAUSED", "ENDED", "BUFFERING", "CUED"},
       duration \in PlayerDurations :
        /\ player.youtube.isReady
        /\ player' = [player EXCEPT !.youtube = handleStateChange(@, playerState, duration)]
        /\ Handled("youtube", playerState)

YTError ==
    /\ player.youtube.isReady
    /\ player' = [player EXCEPT !.youtube = handleError(@)]
    /\ Handled("youtube", "error")

YTTimeUpdate ==
    \E currentTime \in PlayerTimes, duration \in PlayerDurations :
        /\ player.youtube.isPlaying
        /\ player' = [player EXCEPT !.youtube = timeUpdate(@, currentTime, duration)]
        /\ Handled("youtube", "timeUpdate")

YTLoadVideo ==
    \E videoId \in PlayerIds :
        /\ player' = [player EXCEPT !.youtube = loadVideo(@, videoId)]
        /\ Handled("youtube", "loadVideo")

SCReady ==
    /\ player' = [player EXCEPT !.soundcloud = playerReducer(@, "SET_READY", TRUE)]
    /\ Handled("soundcloud", "ready")

SCInitFailed ==
    /\ ~player.soundcloud.isReady
    /\ player' = [player EXCEPT !.soundcloud = scInitFailed(@)]
    /\ Handled("soundcloud", "initFailed")

SCPlay ==
    /\ player.soundcloud.isReady
    /\ player' = [player EXCEPT !.soundcloud = scPlay(@)]
    /\ Handled("soundcloud", "PLAYING")

SCPause ==
    /\ player.soundcloud.isReady
    /\ player' = [player EXCEPT !.soundcloud = scPause(@)]
    /\ Handled("soundcloud", "PAUSED")

SCPlayProgress ==
    \E currentTime \in PlayerTimes :
        /\ player.soundcloud.isPlaying
        /\ player' = [player EXCEPT !.soundcloud = scPlayProgress(@, currentTime)]
        /\ Handled("soundcloud", "playProgress")

SCFinish ==
    /\ player.soundcloud.isReady
    /\ player' = [player EXCEPT !.soundcloud = scFinish(@)]
    /\ Handled("soundcloud", "ENDED")

SCError ==
    /\ player.soundcloud.isReady
    /\ player' = [player EXCEPT !.soundcloud = scError(@)]
    /\ Handled("soundcloud", "error")

SCLoadVideo ==
    \E trackUrl \in PlayerIds :
        /\ player' = [player EXCEPT !.soundcloud = scLoadVideo(@, trackUrl)]
        /\ Handled("soundcloud", "loadVideo")

InitPlayer ==
    /\ storage = NoItem
    /\ clock = Epoch
    /\ faulty = FALSE
    /\ last = [op |-> "none", out |-> "returned"]
    /\ calls = 0
    /\ player = InitialPlayers
    /\ tabs = NoTabs

NextPlayer ==
    \/ YTReady
    \/ YTStateChange
    \/ YTError
    \/ YTTimeUpdate
    \/ YTLoadVideo
    \/ SCReady
    \/ SCInitFailed
    \/ SCPlay
    \/ SCPause
    \/ SCPlayProgress
    \/ SCFinish
    \/ SCError
    \/ SCLoadVideo

SpecPlayer == InitPlayer /\ [][NextPlayer]_vars

-----------------------------------------------------------------------------
(* Two writers on one localStorage: an operation is two steps, its load()  *)
(* and then its change in memory with its save(); the steps of one writer  *)
(* may fall between the two steps of the other.                            *)

\* the store after addFrequency("x1", "T") on an empty localStorage
OneItemStored == addFrequency(NoItem, Epoch, "x1", "T", "youtube", TRUE, TRUE).raw

\* the writer begins recordSkip(videoId, position): const data = this.load()
TabLoadForSkip ==
    \E w \in Writers, videoId \in OpIds, position \in Positions :
        LET l == load(storage, clock, TRUE) IN
        /\ tabs.pending[w] = Idle
        /\ tabs.begun < MaxWrites
        /\ storage' = l.raw
        /\ tabs' = [tabs EXCEPT
                      !.pending[w] = [at |-> "loaded", op |-> "recordSkip",
                                      videoId |-> videoId, position |-> position,
                                      data |-> l.value],
                      !.overlapped = @ \/ \E o \in Writers \ {w} : tabs.pending[o] # Idle,
                      !.begun = @ + 1]
        /\ UNCHANGED <<clock, faulty, last, calls, player>>

\* the writer begins recordCompletion(videoId): const data = this.load()
TabLoadForCompletion ==
    \E w \in Writers, videoId \in OpIds :
        LET l == load(storage, clock, TRUE) IN
        /\ tabs.pending[w] = Idle
        /\ tabs.begun < MaxWrites
        /\ storage' = l.raw
        /\ tabs' = [tabs EXCEPT
                      !.pending[w] = [at |-> "loaded", op |-> "recordCompletion",
                                      videoId |-> videoId, data |-> l.value],
                      !.overlapped = @ \/ \E o \in Writers \ {w} : tabs.pending[o] # Idle,
                      !.begun = @ + 1]
        /\ UNCHANGED <<clock, faulty, last, calls, player>>

\* the operation completes: its effect is entered in the ledger
Completed(w, p, r) ==
    /\ storage' = r.raw
    /\ last' = [op |-> p.op, videoId |-> p.videoId, writer |-> w, out |-> r.out]
    /\ tabs' = [tabs EXCEPT
                  !.pending[w] = Idle,
                  !.ledger[p.videoId] =
                      IF Present(p.data, p.videoId)
                      THEN [skips |-> @.skips + EffectOf(p).skips,
                            completions |-> @.completions + EffectOf(p).completions]
                      ELSE @]
    /\ UNCHANGED <<clock, faulty, calls, player>>

\* the rest of recordSkip: the change in memory and this.save(data)
TabSaveSkip ==
    \E w \in Writers :
        /\ tabs.pending[w] # Idle
        /\ tabs.pending[w].op = "recordSkip"
        /\ LET p == tabs.pending[w]
           IN Completed(w, p, recordSkipOn(p.data, storage, p.videoId, p.position, TRUE))

\* the rest of recordCompletion: the change in memory and this.save(data)
TabSaveCompletion ==
    \E w \in Writers :
        /\ tabs.pending[w] # Idle
        /\ tabs.pending[w].op = "recordCompletion"
        /\ LET p == tabs.pending[w]
           IN Completed(w, p, recordCompletionOn(p.data, storage, p.videoId, TRUE))

InitTabs ==
    /\ storage = OneItemStored
    /\ clock = Epoch + TickMs
    /\ faulty = FALSE
    /\ last = [op |-> "none", out |-> "returned"]
    /\ calls = 0
    /\ player = InitialPlayers
    /\ tabs = NoTabs

NextTabs == TabLoadForSkip \/ TabLoadForCompletion \/ TabSaveSkip \/ TabSaveCompletion

SpecTabs == InitTabs /\ [][NextTabs]_vars

-----------------------------------------------------------------------------
(* navigateToPeak on its own: one item with bookmarks out of NavSelections, *)
(* the player at any time of PlayTimes                                      *)

\* whole seconds bookmarked: 0 and 1 are 1 s apart, 10, 50 and 90 stand alone
NavSeconds == {0, 1, 10, 50, 90}

NavSelections ==
    {{sec * Scale : sec \in A} \cup C : A \in SUBSET NavSeconds, C \in {{}, {1}}}

LastSecond == 92

\* playerState.currentTime
PlayTimes == 0..(LastSecond * Scale)

Directions == {"prev", "next"}

\* the peaks of the item playing, as the view holds them
CurrentPeaks(raw, now) ==
    calculatePeaks(raw, now, "x1", DEFAULT_WINDOW_SIZE, TRUE).ret

NavigateToPeak ==
    \E currentTime \in PlayTimes, direction \in Directions :
        LET r == calculatePeaks(storage, clock, "x1", DEFAULT_WINDOW_SIZE, TRUE)
        IN /\ Counted
           /\ storage' = r.raw
           /\ last' = Call("navigateToPeak",
                           [currentPeaks |-> r.ret, currentTime |-> currentTime,
                            direction |-> direction],
                           Gave(r.raw, navigateToPeak(r.ret, currentTime, direction)))

InitNav ==
    /\ storage \in {JSONstringify(PeakSnapshot(S)) : S \in NavSelections}
    /\ clock = Epoch
    /\ faulty = FALSE
    /\ last = [op |-> "none", out |-> "returned"]
    /\ calls = MaxCalls - 1
    /\ player = InitialPlayers
    /\ tabs = NoTabs

SpecNav == InitNav /\ [][NavigateToPeak]_vars

-----------------------------------------------------------------------------
(* getEngagementRankedFrequencies on its own: a version-5 snapshot of three *)
(* items, x1 and y2 of any shape out of RankShapes and z3 between them, and *)
(* one call                                                                 *)

RankShapes ==
    [stars : 0..1, skips : {0, 1, 5}, completions : 0..1, plays : 0..1,
     ageHours : {0, RECENCY_HALF_LIFE_HOURS}]

RankItem(videoId, shape, now) ==
    [NewFrequency(videoId, "T", "youtube", now - shape.ageHours * MsPerHour) EXCEPT
        !.stars = [k \in 1..shape.stars |-> [timestamp |-> 5 * Scale, createdAt |-> now]],
        !.skips = shape.skips,
        !.completions = shape.completions,
        !.sessions = [k \in 1..shape.plays |-> [startedAt |-> now, duration |-> 100]]]

RankSnapshot(a, b, now) ==
    [frequencies |->
        <<RankItem("x1", a, now),
          RankItem("z3", [stars |-> 1, skips |-> 1, completions |-> 1, plays |-> 1,
                          ageHours |-> 0], now),
          RankItem("y2", b, now)>>,
     archivistNotesCache |-> EmptyObject,
     settings |-> [volume |-> DefaultVolume],
     version |-> VERSION]

InitRank ==
    /\ storage \in {JSONstringify(RankSnapshot(a, b, Epoch)) : a \in RankShapes, b \in RankShapes}
    /\ clock = Epoch
    /\ faulty = FALSE
    /\ last = [op |-> "none", out |-> "returned"]
    /\ calls = MaxCalls - 1
    /\ player = InitialPlayers
    /\ tabs = NoTabs

SpecRank == InitRank /\ [][GetEngagementRankedFrequencies]_vars

-----------------------------------------------------------------------------
(* The persisted snapshot, and the snapshot a caller sees.                  *)
(* Every operation reaches the store through load, which seeds an empty     *)
(* localStorage and migrates a snapshot of an earlier version: what an      *)
(* operation does to the store is read on View, the snapshot load hands out.*)

Stored == Has(storage, "json")
Items == IF Stored /\ IsArray(storage.json, "frequencies")
         THEN storage.json.frequencies ELSE <<>>

View(raw, now) == load(raw, now, TRUE).value

\* the stored snapshot has the current version: load hands it out as it is
CurrentStored(raw, now) == load(raw, now, TRUE).via = "stored"

CountOf(freqs, videoId) ==
    Cardinality({i \in 1..Len(freqs) : Has(freqs[i], "videoId") /\ freqs[i].videoId = videoId})

AnyIds == OpIds \cup {"nope"}

-----------------------------------------------------------------------------
(* Claims *)

\* C1: after any sequence of addStar and removeStar calls, no two stored stars
\* of one item have time stamps less than 1 second (Scale units) apart.
C1_Dedup ==
    \A i \in 1..Len(Items) :
        \A j, k \in 1..Len(Items[i].stars) :
            j < k => \/ Items[i].stars[j].timestamp - Items[i].stars[k].timestamp >= Scale
                     \/ Items[i].stars[k].timestamp - Items[i].stars[j].timestamp >= Scale

C1_Witness ==
    /\ last.op = "addStar"
    /\ \E i \in 1..Len(Items) : Len(Items[i].stars) >= 2

\* C2: in the persisted snapshot the stars of every item are ascending by
\* time stamp after any mutating operation.
C2_Sorted ==
    \A i \in 1..Len(Items) :
        \A j, k \in 1..Len(Items[i].stars) :
            j < k => Items[i].stars[j].timestamp <= Items[i].stars[k].timestamp

\* C3: no two items of the persisted snapshot have the same videoId.
C3_UniqueIds ==
    \A i, j \in 1..Len(Items) :
        (i # j /\ Has(Items[i], "videoId") /\ Has(Items[j], "videoId"))
            => Items[i].videoId # Items[j].videoId

\* C4: importData of a document that fails validation returns false; whenever
\* it returns false localStorage is what it was; when it returns true the
\* persisted items are exactly the items of the document.
C4_FailsValidation(text) ==
    \/ ParseThrows(text)
    \/ LET d == JSONparse(text)
       IN \/ ~Has(d, "frequencies") \/ WrongType(d, "frequencies")
          \/ ~Has(d, "settings")
          \/ ~Has(d.settings, "volume") \/ WrongType(d.settings, "volume")
          \/ \E k \in 1..Len(d.frequencies) :
                LET f == d.frequencies[k]
                IN \/ ~Has(f, "videoId") \/ ~Has(f, "title")
                   \/ ~Has(f, "stars") \/ WrongType(f, "stars")

C4_AllOrNothing ==
    \A text \in ImportTexts \cup {JSONstringify(View(storage, clock))}, w \in BOOLEAN :
        LET r == importData(storage, text, w)
        IN /\ C4_FailsValidation(text) => r.ret = FALSE
           /\ r.ret = FALSE => r.raw = storage
           /\ r.ret = TRUE => /\ Has(r.raw, "json")
                              /\ r.raw.json.frequencies = JSONparse(text).frequencies

C4_Witness ==
    /\ last.op = "importData"
    /\ last.ret = FALSE
    /\ Len(Items) > 0

\* C5: every item of a version-5 snapshot that load hands to a caller has
\* sessions, skips, completions and source.
C5_Structural ==
    View(storage, clock).version = VERSION =>
        \A i \in 1..Len(View(storage, clock).frequencies) :
            LET f == View(storage, clock).frequencies[i]
            IN /\ Has(f, "sessions") /\ Has(f, "skips")
               /\ Has(f, "completions") /\ Has(f, "source")

\* C6: loading a stored snapshot of version 1..4 yields a version-5 snapshot
\* with the same items in the same order; an item that lacked sessions, skips,
\* completions or source has <<>>, 0, 0 and "youtube"; every member an item
\* had keeps its value.
C6_Default(k) ==
    CASE k = "sessions" -> <<>>
      [] k = "skips" -> 0
      [] k = "completions" -> 0
      [] k = "source" -> "youtube"

C7_PersistedFirst ==
    \A w \in BOOLEAN :
        LET l == load(storage, clock, w)
        IN l.via = "migrate" =>
            /\ l.raw = JSONstringify(l.value)
            /\ l.value.version = VERSION
            /\ \A w2 \in BOOLEAN :
                 LET again == load(l.raw, clock + TickMs, w2)
                 IN /\ again.via = "stored"
                    /\ again.value = l.value
                    /\ again.raw = l.raw

C7_Witness ==
    /\ last.op = "load"
    /\ last.via = "migrate"
    /\ storage = JSONstringify(last.ret)

\* C8: addFrequency with a videoId that is present returns the existing item
\* and changes nothing; called twice in a row for a videoId that was absent it
\* leaves exactly one item with that videoId, and the second call returns the
\* item of the first.
C8_Idempotent ==
    \A videoId \in AnyIds, title \in Titles, source \in Sources :
        LET seen == View(storage, clock)
            first == addFrequency(storage, clock, videoId, title, source, TRUE, TRUE)
            second == addFrequency(first.raw, clock + TickMs, videoId, title, source, TRUE, TRUE)
        IN /\ Present(seen, videoId) =>
                /\ first.out = "returned"
                /\ first.ret = ItemOf(seen, videoId)
                /\ View(first.raw, clock) = seen
                /\ CurrentStored(storage, clock) => first.raw = storage
           /\ ~Present(seen, videoId) =>
                CountOf(View(second.raw, clock).frequencies, videoId) = 1
           /\ second.out = "returned"
           /\ second.ret = first.ret
           /\ second.raw = first.raw

C8_Witness ==
    /\ last.op = "addFrequency"
    /\ last.out = "returned"
    /\ last.ret.addedAt # clock - TickMs
    /\ CountOf(Items, last.videoId) = 1

\* C9: importData(exportData()) leaves the store as it was: the snapshot a
\* caller sees is the same, and a stored version-5 snapshot is untouched.
C9_RoundTrip ==
    LET seen == View(storage, clock)
        e == exportData(storage, clock, TRUE)
        r == importData(e.raw, e.ret, TRUE)
    IN /\ View(r.raw, clock) = seen
       /\ r.raw = e.raw
       /\ CurrentStored(storage, clock) => r.raw = storage

C9_Witness ==
    /\ last.op = "importData"
    /\ last.roundTrip
    /\ last.ret = TRUE
    /\ storage = last.before
    /\ Len(Items) > 0

\* C10: on a videoId that is not in the store, addStar and removeStar throw
\* "not found", recordSession, recordSkip, recordCompletion and
\* setVideoDuration return normally, and all six leave the items as they were.
C10_Unchanged(r) ==
    /\ View(r.raw, clock).frequencies = View(storage, clock).frequencies
    /\ CurrentStored(storage, clock) => r.raw = storage

C10_Absent ==
    \A videoId \in AnyIds :
        ~Present(View(storage, clock), videoId) =>
            /\ \A t \in Timestamps :
                 LET a == addStar(storage, clock, videoId, t, TRUE, TRUE)
                     b == removeStar(storage, clock, videoId, t, TRUE, TRUE)
                 IN /\ a.out = "notFound" /\ C10_Unchanged(a)
                    /\ b.out = "notFound" /\ C10_Unchanged(b)
            /\ \A d \in Durations :
                 LET r == recordSession(storage, clock, videoId, d, TRUE, TRUE)
                 IN r.out = "returned" /\ C10_Unchanged(r)
            /\ \A p \in Positions :
                 LET r == recordSkip(storage, clock, videoId, p, TRUE, TRUE)
                 IN r.out = "returned" /\ C10_Unchanged(r)
            /\ LET r == recordCompletion(storage, clock, videoId, TRUE, TRUE)
               IN r.out = "returned" /\ C10_Unchanged(r)
            /\ \A d \in VideoDurations :
                 LET r == setVideoDuration(storage, clock, videoId, d, TRUE, TRUE)
                 IN r.out = "returned" /\ C10_Unchanged(r)

C10_Witness ==
    /\ last.op \in {"addStar", "removeStar"}
    /\ last.out = "notFound"
    /\ Len(Items) > 0

\* the other items of the snapshot are what they were
OthersKept(before, after, i) ==
    /\ Len(after.frequencies) = Len(before.frequencies)
    /\ \A j \in 1..Len(before.frequencies) :
          j # i => after.frequencies[j] = before.frequencies[j]

\* C11: for an existing item recordSession(id, d) with d < 10 leaves the
\* whole store unchanged, and with d >= 10 appends exactly one session of
\* duration d at the end of the item's sessions and changes no other item.
C11_Sessions ==
    \A videoId \in OpIds, d \in Durations :
        LET seen == View(storage, clock)
            i == Find(seen.frequencies, videoId)
            r == recordSession(storage, clock, videoId, d, TRUE, TRUE)
            after == View(r.raw, clock)
        IN Present(seen, videoId) =>
            /\ r.out = "returned"
            /\ d < 10 => r.raw = storage
            /\ d >= 10 =>
                /\ Has(seen.frequencies[i], "sessions")
                /\ Len(after.frequencies[i].sessions)
                      = Len(seen.frequencies[i].sessions) + 1
                /\ SubSeq(after.frequencies[i].sessions, 1, Len(seen.frequencies[i].sessions))
                      = seen.frequencies[i].sessions
                /\ after.frequencies[i].sessions[Len(after.frequencies[i].sessions)].duration = d
                /\ OthersKept(seen, after, i)

\* C12: for an existing item recordSkip adds exactly 2 to the item's skips
\* when position < 3 and exactly 1 otherwise (skips that are absent count as
\* 0), and changes no other member of the item and no other item.
C12_Skip ==
    \A videoId \in OpIds, position \in Positions :
        LET seen == View(storage, clock)
            i == Find(seen.frequencies, videoId)
            r == recordSkip(storage, clock, videoId, position, TRUE, TRUE)
            after == View(r.raw, clock)
            old == seen.frequencies[i]
            new == after.frequencies[i]
        IN Present(seen, videoId) =>
            /\ r.out = "returned"
            /\ new.skips = (IF Has(old, "skips") THEN old.skips ELSE 0)
                            + (IF position < 3 THEN 2 ELSE 1)
            /\ DOMAIN new = DOMAIN old \cup {"skips"}
            /\ \A k \in DOMAIN old \ {"skips"} : new[k] = old[k]
            /\ OthersKept(seen, after, i)
            /\ [after EXCEPT !.frequencies = <<>>] = [seen EXCEPT !.frequencies = <<>>]

C12_Witness ==
    /\ last.op = "recordSkip"
    /\ Present(storage.json, last.videoId)
    /\ ItemOf(storage.json, last.videoId).skips = 2

\* C16: for an item with 3 or more stars calculatePeaks returns the reference
\* result: the ascending time stamps split into maximal runs whose consecutive
\* gaps are <= the window (an equal gap stays in the run), the mean of each
\* run, the 10 largest runs kept (equal sizes: the earlier center first), the
\* kept centers rounded to the nearest second (halves up) in ascending order.
C16_Runs(ts, gap) ==
    {r \in (1..Len(ts)) \X (1..Len(ts)) :
        /\ r[1] <= r[2]
        /\ \A k \in r[1]..(r[2] - 1) : ts[k + 1] - ts[k] <= gap * Scale
        /\ r[1] = 1 \/ ts[r[1]] - ts[r[1] - 1] > gap * Scale
        /\ r[2] = Len(ts) \/ ts[r[2] + 1] - ts[r[2]] > gap * Scale}

C16_Size(r) == r[2] - r[1] + 1
C16_Total(ts, r) == Sum(SubSeq(ts, r[1], r[2]))

\* run q ranks before run r: larger, or as large with the earlier center
C16_Beats(ts, q, r) ==
    \/ C16_Size(q) > C16_Size(r)
    \/ /\ C16_Size(q) = C16_Size(r)
       /\ C16_Total(ts, q) * C16_Size(r) < C16_Total(ts, r) * C16_Size(q)

C16_Kept(ts, runs) ==
    {r \in runs : Cardinality({q \in runs : C16_Beats(ts, q, r)}) < 10}

\* the whole second n nearest to the mean of run r, halves up:
\* n - 1/2 <= mean < n + 1/2, the mean being total / (size * Scale) seconds
C16_Nearest(ts, r) ==
    CHOOSE n \in 0..(ts[Len(ts)] \div Scale + 1) :
        /\ (2 * n - 1) * C16_Size(r) * Scale <= 2 * C16_Total(ts, r)
        /\ 2 * C16_Total(ts, r) < (2 * n + 1) * C16_Size(r) * Scale

C16_Reference(ts, gap) ==
    LET kept == C16_Kept(ts, C16_Runs(ts, gap))
        Nth(k) == CHOOSE r \in kept : Cardinality({q \in kept : q[1] < r[1]}) = k - 1
    IN [k \in 1..Cardinality(kept) |-> Scale * C16_Nearest(ts, Nth(k))]

C16_Stamps == [k \in 1..Len(Items[1].stars) |-> Items[1].stars[k].timestamp]

C14_Hours(f) == (clock - TickMs - f.addedAt) \div 3600000

C14_Confidence10(f) ==
    LET raw10 == 10 * Len(f.stars) - 3 * f.skips
                 + (IF Len(f.sessions) >= 1 THEN 5 * f.completions ELSE 0)
    IN 10 + 40 * (IF raw10 > 0 THEN raw10 ELSE 0)

C14_Max10 ==
    CHOOSE m \in {10} \cup {C14_Confidence10(Items[i]) : i \in 1..Len(Items)} :
        \A n \in {10} \cup {C14_Confidence10(Items[i]) : i \in 1..Len(Items)} : n <= m

\* score(a) * D, D = 10 * max * (168 + ha)(168 + hb) being common to a and b
C14_Scaled(a, b) ==
    3 * 168 * C14_Max10 * (168 + C14_Hours(b))
    + 7 * C14_Confidence10(a) * (168 + C14_Hours(a)) * (168 + C14_Hours(b))

C14_Index(f) == CHOOSE i \in 1..Len(Items) : Items[i] = f

\* C14: the ranked listing is a permutation of the stored items, in
\* non-increasing order of score, items of equal score in stored order.
C14_Ranking ==
    last.op = "getEngagementRankedFrequencies" =>
        /\ Len(last.ret) = Len(Items)
        /\ \A i \in 1..Len(Items) :
              Cardinality({k \in 1..Len(last.ret) : last.ret[k] = Items[i]}) = 1
        /\ \A j, k \in 1..Len(last.ret) :
              j < k =>
                /\ C14_Scaled(last.ret[j], last.ret[k]) >= C14_Scaled(last.ret[k], last.ret[j])
                /\ C14_Scaled(last.ret[j], last.ret[k]) = C14_Scaled(last.ret[k], last.ret[j])
                      => C14_Index(last.ret[j]) < C14_Index(last.ret[k])

\* a listing that is not in stored order and holds two items of equal score
C14_Witness ==
    /\ last.op = "getEngagementRankedFrequencies"
    /\ last.ret # Items
    /\ \E j, k \in 1..Len(last.ret) :
          j < k /\ C14_Scaled(last.ret[j], last.ret[k]) = C14_Scaled(last.ret[k], last.ret[j])

\* C15: of two items of one snapshot with equal addedAt, equal numbers of
\* stars and equal numbers of sessions >= 1, the one with fewer skips and at
\* least as many completions never scores lower; with one star and one
\* session, skips 0 and completions 1 score strictly higher than skips 5 and
\* completions 0.
C15_Monotone ==
    \A i, j \in 1..Len(Items) :
        LET a == Items[i]
            b == Items[j]
            now == clock - TickMs
            maxConfidence == MaxConfidence(Items)
        IN (/\ last.op = "getEngagementRankedFrequencies"
            /\ a.addedAt = b.addedAt
            /\ Len(a.stars) = Len(b.stars)
            /\ Len(a.sessions) = Len(b.sessions)
            /\ Len(a.sessions) >= 1
            /\ a.skips < b.skips
            /\ a.completions >= b.completions)
           => /\ ~ScoreAbove(b, a, maxConfidence, now)
              /\ (/\ Len(a.stars) = 1 /\ Len(a.sessions) = 1
                  /\ a.skips = 0 /\ a.completions = 1
                  /\ b.skips = 5 /\ b.completions = 0)
                 => ScoreAbove(a, b, maxConfidence, now)

\* the example of the specification, ranked
C15_Witness ==
    /\ last.op = "getEngagementRankedFrequencies"
    /\ \E j, k \in 1..Len(last.ret) :
          /\ j < k
          /\ last.ret[j].addedAt = last.ret[k].addedAt
          /\ Len(last.ret[j].stars) = 1 /\ Len(last.ret[k].stars) = 1
          /\ Len(last.ret[j].sessions) = 1 /\ Len(last.ret[k].sessions) = 1
          /\ last.ret[j].skips = 0 /\ last.ret[j].completions = 1
          /\ last.ret[k].skips = 5 /\ last.ret[k].completions = 0
          /\ last.ret[j].videoId = "y2" /\ last.ret[k].videoId = "x1"

\* C13 as stated: getEngagementRankedFrequencies, calculatePeaks, getStars,
\* getFrequency and getAllFrequencies leave localStorage exactly as it was,
\* whatever it holds (a current snapshot, an older one, or nothing).
C13_ReadsNeverWrite ==
    /\ getEngagementRankedFrequencies(storage, clock, TRUE).raw = storage
    /\ getAllFrequencies(storage, clock, TRUE).raw = storage
    /\ \A videoId \in AnyIds :
          /\ getFrequency(storage, clock, videoId, TRUE).raw = storage
          /\ getStars(storage, clock, videoId, TRUE).raw = storage
          /\ \A windowSize \in WindowSizes :
                calculatePeaks(storage, clock, videoId, windowSize, TRUE).raw = storage

\* what one read leaves in localStorage, raw being what the read left: nothing
\* changes when a current snapshot is stored; otherwise the only write is
\* load's (the seeded or migrated snapshot, or none when that write fails),
\* and the snapshot seen through load is the same before and after
C13_OnlyLoadWrites(raw, w) ==
    /\ CurrentStored(storage, clock) => raw = storage
    /\ raw = load(storage, clock, w).raw
    /\ w => View(raw, clock) = View(storage, clock)

\* C13, amended: a read path leaves localStorage exactly as it was when a
\* current-version snapshot is stored; on an older snapshot or none, the only
\* write is the one load makes.
C13_ReadsKeep ==
    \A w \in BOOLEAN :
        /\ C13_OnlyLoadWrites(getEngagementRankedFrequencies(storage, clock, w).raw, w)
        /\ C13_OnlyLoadWrites(getAllFrequencies(storage, clock, w).raw, w)
        /\ \A videoId \in AnyIds :
              /\ C13_OnlyLoadWrites(getFrequency(storage, clock, videoId, w).raw, w)
              /\ C13_OnlyLoadWrites(getStars(storage, clock, videoId, w).raw, w)
              /\ \A windowSize \in WindowSizes :
                    C13_OnlyLoadWrites(calculatePeaks(storage, clock, videoId, windowSize, w).raw, w)

\* a ranked listing asked for on an empty localStorage: the seeds are stored
C13_Witness ==
    /\ last.op = "getEngagementRankedFrequencies"
    /\ calls = 1
    /\ Len(Items) = Len(SEED_FREQUENCIES)

\* the peaks of a list at the places the search of C17 looks at
C17_After(peaks, p) == {k \in 1..Len(peaks) : peaks[k] > p + Scale}
C17_Before(peaks, p) == {k \in 1..Len(peaks) : peaks[k] < p - Scale}
C17_Min(S) == CHOOSE k \in S : \A j \in S : k <= j
C17_Max(S) == CHOOSE k \in S : \A j \in S : k >= j
C17_Rising(peaks) == \A k \in 1..(Len(peaks) - 1) : peaks[k] < peaks[k + 1]

\* C17: on a non-empty ascending list of non-negative peaks, at every playback
\* position p, 'next' seeks to the first peak greater than p + 1 s or, without
\* one, to the first peak of the list; 'previous' seeks to the last peak less
\* than p - 1 s or, without one, to the last peak of the list.
C17_Navigation ==
    LET peaks == CurrentPeaks(storage, clock)
    IN (Len(peaks) > 0 /\ C17_Rising(peaks) /\ peaks[1] >= 0) =>
          \A p \in PlayTimes :
              /\ navigateToPeak(peaks, p, "next") =
                    IF C17_After(peaks, p) # {}
                    THEN <<peaks[C17_Min(C17_After(peaks, p))]>>
                    ELSE <<peaks[1]>>
              /\ navigateToPeak(peaks, p, "prev") =
                    IF C17_Before(peaks, p) # {}
                    THEN <<peaks[C17_Max(C17_Before(peaks, p))]>>
                    ELSE <<peaks[Len(peaks)]>>

\* the peaks within 1 s of the playhead
C18_Near(peaks, p) == {k \in 1..Len(peaks) : Abs(peaks[k] - p) <= Scale}

C19_FailureSignalled(R(_, _)) ==
    \A wl \in BOOLEAN, ws \in BOOLEAN :
        LET loadFails == ~wl /\ R(FALSE, ws) # R(TRUE, ws)
            saveFails == ~ws /\ R(wl, FALSE) # R(wl, TRUE)
        IN (loadFails \/ saveFails) =>
              /\ R(wl, ws).out # "returned"
              /\ View(R(wl, ws).raw, clock) = View(storage, clock)

\* C19: when a storage write fails during addFrequency, removeFrequency,
\* addStar, removeStar, recordSession, recordSkip, recordCompletion,
\* setVideoDuration or importData, the call throws (importData returns false)
\* and the persisted snapshot is unchanged.
C19_WriteFailure ==
    /\ \A jsonString \in ImportTexts :
          importData(storage, jsonString, FALSE) # importData(storage, jsonString, TRUE) =>
              /\ importData(storage, jsonString, FALSE).ret = FALSE
              /\ importData(storage, jsonString, FALSE).raw = storage
    /\ \A videoId \in OpIds :
          /\ LET R(wl, ws) == addFrequency(storage, clock, videoId, "T", "youtube", wl, ws)
             IN C19_FailureSignalled(R)
          /\ LET R(wl, ws) == removeFrequency(storage, clock, videoId, wl, ws)
             IN C19_FailureSignalled(R)
          /\ LET R(wl, ws) == recordCompletion(storage, clock, videoId, wl, ws)
             IN C19_FailureSignalled(R)
          /\ \A timestamp \in Timestamps :
                /\ LET R(wl, ws) == addStar(storage, clock, videoId, timestamp, wl, ws)
                   IN C19_FailureSignalled(R)
                /\ LET R(wl, ws) == removeStar(storage, clock, videoId, timestamp, wl, ws)
                   IN C19_FailureSignalled(R)
          /\ \A duration \in Durations :
                LET R(wl, ws) == recordSession(storage, clock, videoId, duration, wl, ws)
                IN C19_FailureSignalled(R)
          /\ \A position \in Positions :
                LET R(wl, ws) == recordSkip(storage, clock, videoId, position, wl, ws)
                IN C19_FailureSignalled(R)
          /\ \A duration \in VideoDurations :
                LET R(wl, ws) == setVideoDuration(storage, clock, videoId, duration, wl, ws)
                IN C19_FailureSignalled(R)

\* the timestamps bookmarked in an item
C20_Stamps(f) == {f.stars[k].timestamp : k \in 1..LengthOrZero(f, "stars")}

\* item f of the snapshot before a call is in the snapshot after it, with no
\* session and no count lost and, unless the call removed a bookmark of it,
\* every bookmark
C20_Survives(f, after, op, videoId) ==
    \E j \in 1..Len(after) :
        /\ Has(after[j], "videoId") /\ after[j].videoId = f.videoId
        /\ LengthOrZero(after[j], "sessions") >= LengthOrZero(f, "sessions")
        /\ OrZero(after[j], "skips") >= OrZero(f, "skips")
        /\ OrZero(after[j], "completions") >= OrZero(f, "completions")
        /\ (op = "removeStar" /\ videoId = f.videoId)
              \/ C20_Stamps(f) \subseteq C20_Stamps(after[j])

\* C20: a call that is no removeFrequency of the item, no successful
\* importData and no clearAll keeps every item of the persisted snapshot, with
\* its stars, sessions and counts, whatever the stored version is and
\* whichever storage writes fail.
C20_NoAutomaticDeletion ==
    [][(/\ Stored
        /\ last'.op # "clearAll"
        /\ ~(last'.op = "importData" /\ last'.ret = TRUE))
       => LET before == View(storage, clock).frequencies
              after == View(storage', clock').frequencies
          IN \A i \in 1..Len(before) :
                (/\ Has(before[i], "videoId")
                 /\ ~(last'.op = "removeFrequency" /\ last'.videoId = before[i].videoId))
                => C20_Survives(before[i], after, last'.op, last'.videoId)]_vars

\* the places of the stars that removeStar(t) has to keep
C21_Far(stars, t) == {k \in 1..Len(stars) : ~WithinTolerance(stars[k].timestamp, t)}

\* after holds the stars of before at the places in keep, in their order
C21_Subsequence(before, after, keep) ==
    /\ Len(after) = Cardinality(keep)
    /\ \A k \in keep :
          after[Cardinality({j \in keep : j <= k})] = before[k]

\* C21: removeStar(id, t) on an existing item removes exactly the stars
\* within 1 s of t (none, one or two of them), keeps the other stars of the
\* item in their order and every other item as it was; afterwards no star of
\* the item is within 1 s of t.
C21_Remove ==
    \A videoId \in OpIds, t \in Timestamps :
        LET seen == View(storage, clock)
            i == Find(seen.frequencies, videoId)
            r == removeStar(storage, clock, videoId, t, TRUE, TRUE)
            after == View(r.raw, clock)
        IN i # 0 =>
              /\ r.out = "returned"
              /\ OthersKept(seen, after, i)
              /\ after.frequencies[i] =
                    [seen.frequencies[i] EXCEPT !.stars = after.frequencies[i].stars]
              /\ C21_Subsequence(seen.frequencies[i].stars, after.frequencies[i].stars,
                                 C21_Far(seen.frequencies[i].stars, t))
              /\ Len(seen.frequencies[i].stars) - Len(after.frequencies[i].stars) <= 2
              /\ ~StarExists(after.frequencies[i].stars, t)

\* the seed list as load has to persist it: the videoIds and titles of the
\* built-in list, no stars, no sessions, counts 0
C22_SeedList(freqs) ==
    /\ Len(freqs) = Len(SEED_FREQUENCIES)
    /\ \A i \in 1..Len(freqs) :
          /\ freqs[i].videoId = SEED_FREQUENCIES[i].videoId
          /\ freqs[i].title = SEED_FREQUENCIES[i].title
          /\ freqs[i].stars = <<>>
          /\ freqs[i].sessions = <<>>
          /\ freqs[i].skips = 0
          /\ freqs[i].completions = 0

\* C22: load seeds exactly when localStorage holds no snapshot, and then
\* persists the built-in list; with a snapshot stored it never seeds, and a
\* stored snapshot without items stays without items on this load and the next.
C22_Seeding ==
    LET l == load(storage, clock, TRUE)
        again == load(l.raw, clock + TickMs, TRUE)
    IN /\ storage = NoItem =>
             /\ l.via = "seed"
             /\ C22_SeedList(l.value.frequencies)
             /\ l.raw = JSONstringify(l.value)
       /\ Stored =>
             /\ l.via # "seed"
             /\ Len(l.value.frequencies) = Len(Items)
       /\ again.via = "stored"
       /\ again.value = l.value
       /\ again.raw = l.raw

\* a load of a snapshot that removeFrequency has left without items
C22_Witness ==
    /\ last.op = "load"
    /\ calls = 2
    /\ Stored
    /\ Len(Items) = 0
    /\ last.ret.frequencies = <<>>

\* the places of the items with another videoId
C23_Others(freqs, videoId) == {k \in 1..Len(freqs) : freqs[k].videoId # videoId}

\* C23: removeFrequency(id) leaves no item with that videoId and every other
\* item as it was, in the same order; for an absent id it returns normally and
\* changes no item; a second removeFrequency(id) changes nothing.
C23_RemoveItem ==
    \A videoId \in AnyIds :
        LET seen == View(storage, clock).frequencies
            r == removeFrequency(storage, clock, videoId, TRUE, TRUE)
            after == View(r.raw, clock).frequencies
            second == removeFrequency(r.raw, clock + TickMs, videoId, TRUE, TRUE)
        IN /\ r.out = "returned"
           /\ CountOf(after, videoId) = 0
           /\ C21_Subsequence(seen, after, C23_Others(seen, videoId))
           /\ CountOf(seen, videoId) = 0 => after = seen
           /\ second.out = "returned"
           /\ second.raw = r.raw

\* one of the two stored items has been removed and the other one is left
C23_Witness ==
    /\ last.op = "removeFrequency"
    /\ last.out = "returned"
    /\ calls = 1
    /\ Len(Items) = 1
    /\ CountOf(Items, last.videoId) = 0

\* the sessions of an item, none when the member is missing
C24_SessionsOf(f) == IF Has(f, "sessions") THEN f.sessions ELSE <<>>

C24_Prefix(old, new) == Len(new) >= Len(old) /\ SubSeq(new, 1, Len(old)) = old

\* C24: a call other than a successful importData leaves, for every item that
\* is still stored after it, the sessions recorded before as a prefix of the
\* item's sessions (clearAll and removeFrequency leave no such item).
C24_AppendOnly ==
    [][(/\ last'.op # "clearAll"
        /\ ~(last'.op = "importData" /\ last'.ret = TRUE))
       => LET before == View(storage, clock).frequencies
              after == View(storage', clock').frequencies
          IN \A i \in 1..Len(before) :
                CountOf(after, before[i].videoId) > 0 =>
                    \E j \in 1..Len(after) :
                        /\ after[j].videoId = before[i].videoId
                        /\ C24_Prefix(C24_SessionsOf(before[i]), C24_SessionsOf(after[j]))]_vars

\* a session has been appended to an item that had one
C24_Witness ==
    /\ last.op = "recordSession"
    /\ \E i \in 1..Len(Items) :
          /\ Items[i].videoId = last.videoId
          /\ Len(C24_SessionsOf(Items[i])) = 2
          /\ Items[i].sessions[2].duration = MinSessionSeconds

\* C25: in every reachable state, for every videoId, calculatePeaks returns
\* at most 10 values in non-decreasing order; none for an item without stars
\* or an unknown videoId; for an item with 1 or 2 stars their stored time
\* stamps as they are.
C25_Shape ==
    \A videoId \in AnyIds, windowSize \in WindowSizes :
        LET seen == View(storage, clock)
            i == Find(seen.frequencies, videoId)
            stars == IF i = 0 THEN <<>> ELSE seen.frequencies[i].stars
            peaks == calculatePeaks(storage, clock, videoId, windowSize, TRUE).ret
        IN /\ Len(peaks) <= DEFAULT_PEAK_COUNT
           /\ \A k \in 1..(Len(peaks) - 1) : peaks[k] <= peaks[k + 1]
           /\ Len(stars) = 0 => peaks = <<>>
           /\ Len(stars) \in {1, 2} =>
                 peaks = [k \in 1..Len(stars) |-> stars[k].timestamp]

\* C26: in every stored snapshot each item's completions do not exceed the
\* number of its recorded sessions (the completion rate of an item with at
\* least one session is at most 1).
C26_RateBound ==
    \A i \in 1..Len(Items) :
        LengthOrZero(Items[i], "sessions") > 0 =>
            /\ OrZero(Items[i], "completions") >= 0
            /\ OrZero(Items[i], "completions") <= LengthOrZero(Items[i], "sessions")

\* C27: after a player handles an error event its state has status
\* 'signal-lost' and isPlaying false, and the status stays 'signal-lost'
\* until a play, pause, buffering or load event changes it.
C27_SignalLost ==
    [][\A source \in {"youtube", "soundcloud"} :
          /\ (last'.op = "error" /\ last'.source = source) =>
                /\ player'[source].status = "signal-lost"
                /\ ~player'[source].isPlaying
          /\ (player[source].status = "signal-lost"
                /\ player'[source].status # "signal-lost") =>
                last'.op \in {"PLAYING", "PAUSED", "BUFFERING", "loadVideo"}]_vars


-----------------------------------------------------------------------------
(* C28: load, change, save by one writer at a time, and by two at once *)

\* what localStorage holds of an item's counters
C28_Stored(videoId) ==
    LET f == ItemOf(View(storage, clock), videoId)
    IN [skips |-> OrZero(f, "skips"), completions |-> OrZero(f, "completions")]

\* the two steps of a writer are the operation: load(), then the rest
C28_TwoSteps ==
    LET l == load(storage, clock, TRUE) IN
    \A videoId \in OpIds :
        /\ \A position \in Positions :
              recordSkip(storage, clock, videoId, position, TRUE, TRUE)
                  = recordSkipOn(l.value, l.raw, videoId, position, TRUE)
        /\ recordCompletion(storage, clock, videoId, TRUE, TRUE)
              = recordCompletionOn(l.value, l.raw, videoId, TRUE)

\* C28: as long as no writer has loaded while another writer was between its
\* load and its save, the persisted snapshot holds the effect of every
\* completed operation: each item's skips and completions are the sums of what
\* the completed operations added (no update is lost); the lost update of two
\* interleaved writers is the state C28_Witness
C28_SingleWriter ==
    /\ C28_TwoSteps
    /\ ~tabs.overlapped => \A videoId \in OpIds : C28_Stored(videoId) = tabs.ledger[videoId]

\* two writers interleaved: an operation made alone before is still counted
\* (a completion of x1), and of two overlapping operations, both completed,
\* one has been overwritten (the skips of x1 are fewer than recorded)
C28_Witness ==
    /\ tabs.overlapped
    /\ \A w \in Writers : tabs.pending[w] = Idle
    /\ tabs.ledger["x1"].completions = 1
    /\ C28_Stored("x1").completions = 1
    /\ C28_Stored("x1").skips < tabs.ledger["x1"].skips


-----------------------------------------------------------------------------
(* C29: what addStar leaves near the time stamp *)

\* the positions of the stars less than 1 second from t
C29_Near(stars, t) == {k \in 1..Len(stars) : WithinTolerance(stars[k].timestamp, t)}

C29_StarsOf(raw, videoId) == ItemOf(View(raw, clock), videoId).stars

\* C29: after addStar(videoId, t) returns normally on an existing item, the
\* item has a star less than 1 second from t, and it has exactly one star more
\* than before if no star was less than 1 second from t before the call, and
\* as many as before otherwise.
C29_Coverage ==
    \A videoId \in OpIds, t \in Timestamps :
        LET r == addStar(storage, clock, videoId, t, TRUE, TRUE)
        IN (Present(View(storage, clock), videoId) /\ r.out = "returned") =>
              LET before == C29_StarsOf(storage, videoId)
                  after == C29_StarsOf(r.raw, videoId)
              IN /\ C29_Near(after, t) # {}
                 /\ Len(after) = Len(before)
                                   + (IF C29_Near(before, t) = {} THEN 1 ELSE 0)

\* an addStar has put a star on an item, and addStar(t) with another t less
\* than 1 second from it adds nothing, after which removeStar(t) removes the
\* star that was there before
C29_Witness ==
    /\ last.op = "addStar"
    /\ last.out = "returned"
    /\ Present(View(storage, clock), last.videoId)
    /\ \E t \in Timestamps :
          LET before == C29_StarsOf(storage, last.videoId)
              added == addStar(storage, clock, last.videoId, t, TRUE, TRUE)
              removed == removeStar(added.raw, clock, last.videoId, t, TRUE, TRUE)
          IN /\ Len(before) = 1
             /\ before[1].timestamp # t
             /\ C29_StarsOf(added.raw, last.videoId) = before
             /\ C29_StarsOf(removed.raw, last.videoId) = <<>>


-----------------------------------------------------------------------------
(* C30: restoring a backup *)

\* C30: at every state of the store reached through the public operations,
\* importData(exportData()) returns true.
C30_Restorable ==
    LET e == exportData(storage, clock, TRUE)
    IN importData(e.raw, e.ret, TRUE).ret = TRUE

====
